---- MODULE Spec2Model ----
(***************************************************************************)
(* Validation-and-reconciliation engine of the document parser:            *)
(*   - MathValidator / TaxValidator (validators/*.py)                      *)
(*   - LLMExtractor.extract_to_canonical / revalidate (normalizers)        *)
(*   - DocumentPipeline.process and its helpers (core/pipeline.py)         *)
(*                                                                         *)
(* Python Decimal values are modelled as exact rationals [n, d] in lowest  *)
(* terms (currency units, not cents), so 1512.51 is [151251, 100] and the  *)
(* absolute tolerance 0.02 is [1, 50].  Decimal +, -, * are exact at the   *)
(* magnitudes used here; quantize() and the ":.2f" format round half-even. *)
(***************************************************************************)
EXTENDS Integers, Sequences, FiniteSets, TLC

(***************************************************************************)
(* Exact decimal arithmetic                                                *)
(***************************************************************************)
Abs(x) == IF x < 0 THEN -x ELSE x

RECURSIVE Gcd(_, _)
Gcd(a, b) == IF b = 0 THEN a ELSE Gcd(b, a % b)

Norm(n, d) ==
    LET g == Gcd(Abs(n), Abs(d))
        s == IF d < 0 THEN -1 ELSE 1
    IN  [n |-> s * (n \div g), d |-> s * (d \div g)]

D(i) == [n |-> i, d |-> 1]
Zero == D(0)
\* operands are reduced against each other before multiplying, so that the
\* intermediate products stay small
RAdd(a, b) ==
    LET g == Gcd(a.d, b.d)
    IN  Norm(a.n * (b.d \div g) + b.n * (a.d \div g), (a.d \div g) * b.d)
RNeg(a) == [n |-> -a.n, d |-> a.d]
RSub(a, b) == RAdd(a, RNeg(b))
RMul(a, b) ==
    LET g1 == Gcd(Abs(a.n), b.d)
        g2 == Gcd(Abs(b.n), a.d)
    IN  Norm((a.n \div g1) * (b.n \div g2), (a.d \div g2) * (b.d \div g1))
RInv(a) == IF a.n < 0 THEN [n |-> -a.d, d |-> -a.n] ELSE [n |-> a.d, d |-> a.n]
RDiv(a, b) == RMul(a, RInv(b))
RAbs(a) == [n |-> Abs(a.n), d |-> a.d]
RLe(a, b) ==
    LET g == Gcd(a.d, b.d) IN a.n * (b.d \div g) <= b.n * (a.d \div g)
RLt(a, b) ==
    LET g == Gcd(a.d, b.d) IN a.n * (b.d \div g) < b.n * (a.d \div g)
RMax(a, b) == IF RLt(a, b) THEN b ELSE a

RECURSIVE RSum(_)
RSum(s) == IF s = <<>> THEN Zero ELSE RAdd(Head(s), RSum(Tail(s)))

\* Decimal.quantize / ":.Nf": round n/d to a multiple of 1/scale, ties to even
Quantize(a, scale) ==
    LET num == (a.n % a.d) * scale
        q   == (a.n \div a.d) * scale + (num \div a.d)
        r   == num % a.d
        up  == (2 * r > a.d) \/ (2 * r = a.d /\ q % 2 = 1)
    IN  Norm(IF up THEN q + 1 ELSE q, scale)

\* Optional values: None is <<>>, a present value v is <<v>>
None == <<>>
Some(v) == <<v>>
\* Python truthiness of "Decimal | None": present and non-zero
Truthy(o) == o # None /\ o[1].n # 0

RECURSIVE SeqConcat(_)
SeqConcat(ss) == IF ss = <<>> THEN <<>> ELSE Head(ss) \o SeqConcat(Tail(ss))

(***************************************************************************)
(* Messages.  An error or warning string is kept as the sequence of its    *)
(* lower-cased words; every interpolated number is a token "#" carrying    *)
(* the value.  Substring tests of the source become phrase tests here.     *)
(***************************************************************************)
W(w) == [w |-> w, v |-> Zero]
Num(r) == [w |-> "#", v |-> r]
Words(ws) == [i \in 1..Len(ws) |-> W(ws[i])]

\* t ends with / starts with / contains w, over the vocabulary of the messages
EndsWith(t, w) == t = w \/ (w = "total" /\ t = "subtotal")
StartsWith(t, w) == t = w \/ (w = "tax" /\ t = "taxes") \/ (w = "line" /\ t = "lines")
SubstrOf(t, w) == EndsWith(t, w) \/ StartsWith(t, w)

\* Python: " ".join(phrase) in msg.lower()
MsgHas(msg, phrase) ==
    LET k == Len(phrase) IN
    \E i \in 1..Len(msg) :
        /\ i + k - 1 <= Len(msg)
        /\ IF k = 1 THEN SubstrOf(msg[i].w, phrase[1])
           ELSE /\ EndsWith(msg[i].w, phrase[1])
                /\ StartsWith(msg[i + k - 1].w, phrase[k])
                /\ \A j \in 2..(k - 1) : msg[i + j - 1].w = phrase[j]

(***************************************************************************)
(* validators/math_validator.py                                            *)
(***************************************************************************)
ABSOLUTE_TOLERANCE == [n |-> 1, d |-> 50]
RELATIVE_TOLERANCE_Loose == [n |-> 1, d |-> 5]
RELATIVE_TOLERANCE == [n |-> 1, d |-> 100]

\* a merge in which a warning of the other result costs validity
merge_WarningsInvalidate(self, other) ==
    [is_valid |-> self.is_valid /\ other.is_valid /\ other.warnings = <<>>,
     errors   |-> self.errors \o other.errors,
     warnings |-> self.warnings \o other.warnings]

merge(self, other) ==
    [is_valid |-> self.is_valid /\ other.is_valid,
     errors   |-> self.errors \o other.errors,
     warnings |-> self.warnings \o other.warnings]

ValidationResult(ok, errs, warns) == [is_valid |-> ok, errors |-> errs, warnings |-> warns]

\* only the absolute floor: the relative test is left out
_is_close_AbsoluteOnly(a, b) == RLe(RAbs(RSub(a, b)), ABSOLUTE_TOLERANCE)

\* float(diff / max_val) <= 0.01 is exact here: the quotient of two model
\* values is never within float rounding distance of 0.01 without equalling it.
_is_close(a, b) ==
    LET diff    == RAbs(RSub(a, b))
        max_val == RMax(RAbs(a), RAbs(b))
    IN  IF RLe(diff, ABSOLUTE_TOLERANCE) THEN TRUE
        ELSE IF RLt(Zero, max_val)
             THEN RLe(RDiv(diff, max_val), RELATIVE_TOLERANCE)
             ELSE TRUE

LineTotals(doc) == [i \in 1..Len(doc.line_items) |-> doc.line_items[i].line_total]
LineTaxes(doc) == [i \in 1..Len(doc.line_items) |-> doc.line_items[i].tax_amount]

_is_us_style_invoice_NoEmptyGuard(doc) ==
    LET all_zero_tax == \A i \in 1..Len(doc.line_items) :
                            doc.line_items[i].tax_amount.n = 0
        line_sum == RSum(LineTotals(doc))
    IN  IF all_zero_tax /\ RLt(Zero, doc.totals.total_tax) THEN TRUE
        ELSE IF _is_close(line_sum, doc.totals.subtotal) THEN TRUE
        ELSE FALSE

_is_us_style_invoice(doc) ==
    IF doc.line_items = <<>> THEN FALSE
    ELSE LET all_zero_tax == \A i \in 1..Len(doc.line_items) :
                                 doc.line_items[i].tax_amount.n = 0
             line_sum == RSum(LineTotals(doc))
         IN  IF all_zero_tax /\ RLt(Zero, doc.totals.total_tax) THEN TRUE
             ELSE IF _is_close(line_sum, doc.totals.subtotal) THEN TRUE
             ELSE FALSE

\* quantity x unit_price, less the discount
ExpectedGross(item) ==
    LET gross == RMul(item.quantity, item.unit_price) IN
    IF Truthy(item.discount_percent)
    THEN RSub(gross, RMul(gross, RDiv(item.discount_percent[1], D(100))))
    ELSE IF Truthy(item.discount_amount)
         THEN RSub(gross, item.discount_amount[1])
         ELSE gross

LineErrorUS(item) ==
    <<W("line"), Num(D(item.line_number)), W(":"), W("total"), Num(item.line_total),
      W("doesn't"), W("match"), W("expected"), Num(Quantize(ExpectedGross(item), 100)),
      W("("), W("qty"), Num(item.quantity), W("x"), W("price"), Num(item.unit_price), W(")")>>

LineWarningEU(item) ==
    <<W("line"), Num(D(item.line_number)), W(":"), W("total"), Num(item.line_total),
      W("doesn't"), W("match"), W("qty"), W("x"), W("price"), W("("),
      Num(Quantize(ExpectedGross(item), 100)), W(")")>>

\* EU branch: gross pricing fits, or net price plus tax at tax_rate fits
LineFitsEU(item) ==
    LET expected_gross == ExpectedGross(item) IN
    \/ _is_close(item.line_total, expected_gross)
    \/ /\ item.tax_rate # None
       /\ _is_close(item.line_total,
                    RAdd(expected_gross,
                         RMul(expected_gross, RDiv(item.tax_rate[1], D(100)))))

_validate_line_items_Strict(doc, is_us_style) ==
    LET items == doc.line_items
        errors == SeqConcat([i \in 1..Len(items) |->
                      IF is_us_style
                      THEN IF ~_is_close(items[i].line_total, ExpectedGross(items[i]))
                           THEN <<LineErrorUS(items[i])>> ELSE <<>>
                      ELSE IF ~LineFitsEU(items[i])
                           THEN <<LineWarningEU(items[i])>> ELSE <<>>])
    IN  ValidationResult(Len(errors) = 0, errors, <<>>)

_validate_line_items(doc, is_us_style) ==
    LET items == doc.line_items
        errors == SeqConcat([i \in 1..Len(items) |->
                      IF is_us_style /\ ~_is_close(items[i].line_total, ExpectedGross(items[i]))
                      THEN <<LineErrorUS(items[i])>> ELSE <<>>])
        warnings == SeqConcat([i \in 1..Len(items) |->
                      IF ~is_us_style /\ ~LineFitsEU(items[i])
                      THEN <<LineWarningEU(items[i])>> ELSE <<>>])
    IN  ValidationResult(Len(errors) = 0, errors, warnings)

_validate_subtotal(doc, is_us_style) ==
    IF doc.line_items = <<>> THEN ValidationResult(TRUE, <<>>, <<>>)
    ELSE
    LET t == doc.totals
        line_total_sum == RSum(LineTotals(doc))
        expected_total == RAdd(t.subtotal, t.total_tax)
        rounding == IF Truthy(t.rounding_amount) THEN t.rounding_amount[1] ELSE Zero
        warnings ==
            IF is_us_style
            THEN IF ~_is_close(t.subtotal, line_total_sum)
                 THEN << <<W("subtotal"), W("mismatch"), W(":"), W("document"), W("shows"),
                           Num(t.subtotal), W(","), W("but"), W("sum"), W("of"), W("line"),
                           W("items"), W("is"), Num(Quantize(line_total_sum, 100))>> >>
                 ELSE <<>>
            ELSE IF /\ ~_is_close(t.total_amount, RAdd(expected_total, rounding))
                    /\ ~_is_close(expected_total, line_total_sum)
                 THEN << <<W("subtotal"), W("relationship"), W("unclear"), W(":"),
                           W("subtotal"), W("("), Num(t.subtotal), W(")"), W("+"), W("tax"),
                           W("("), Num(t.total_tax), W(")"), W("="),
                           Num(Quantize(expected_total, 100)), W(","), W("but"), W("total"),
                           W("is"), Num(t.total_amount)>> >>
                 ELSE <<>>
    IN  ValidationResult(TRUE, <<>>, warnings)

ExpectedBreakdownTax(tax) == RMul(tax.taxable_amount, RDiv(tax.rate, D(100)))
BreakdownTaxes(doc) ==
    [i \in 1..Len(doc.totals.tax_breakdown) |-> doc.totals.tax_breakdown[i].tax_amount]

_validate_us_style_tax(doc) ==
    LET tb == doc.totals.tax_breakdown
        entry_errors == SeqConcat([i \in 1..Len(tb) |->
            IF ~_is_close(tb[i].tax_amount, ExpectedBreakdownTax(tb[i]))
            THEN << <<W("tax"), W("breakdown"), W("error"), W(":"), Num(tb[i].rate), W("%"),
                      W("of"), Num(tb[i].taxable_amount), W("should"), W("be"),
                      Num(Quantize(ExpectedBreakdownTax(tb[i]), 100)), W(","), W("but"),
                      W("document"), W("shows"), Num(tb[i].tax_amount)>> >>
            ELSE <<>>])
        breakdown_sum == RSum(BreakdownTaxes(doc))
        sum_errors ==
            IF tb # <<>> /\ ~_is_close(doc.totals.total_tax, breakdown_sum)
            THEN << <<W("total"), W("tax"), Num(doc.totals.total_tax), W("doesn't"),
                      W("match"), W("sum"), W("of"), W("tax"), W("breakdown"),
                      Num(Quantize(breakdown_sum, 100))>> >>
            ELSE <<>>
        errors == entry_errors \o sum_errors
    IN  ValidationResult(Len(errors) = 0, errors, <<>>)

_validate_eu_style_tax_AsErrors(doc) ==
    LET tb == doc.totals.tax_breakdown
        entry_warnings == SeqConcat([i \in 1..Len(tb) |->
            IF ~_is_close(tb[i].tax_amount, ExpectedBreakdownTax(tb[i]))
            THEN << <<W("tax"), W("breakdown"), W(":"), Num(tb[i].rate), W("%"), W("of"),
                      Num(tb[i].taxable_amount), W("="),
                      Num(Quantize(ExpectedBreakdownTax(tb[i]), 100)), W(","),
                      W("document"), W("shows"), Num(tb[i].tax_amount)>> >>
            ELSE <<>>])
        line_tax_sum == RSum(LineTaxes(doc))
        sum_warnings ==
            IF RLt(Zero, line_tax_sum) /\ ~_is_close(doc.totals.total_tax, line_tax_sum)
            THEN << <<W("total"), W("tax"), Num(doc.totals.total_tax), W("differs"),
                      W("from"), W("sum"), W("of"), W("line"), W("item"), W("taxes"),
                      Num(Quantize(line_tax_sum, 100))>> >>
            ELSE <<>>
    IN  ValidationResult(Len(entry_warnings) = 0, entry_warnings, sum_warnings)

_validate_eu_style_tax(doc) ==
    LET tb == doc.totals.tax_breakdown
        entry_warnings == SeqConcat([i \in 1..Len(tb) |->
            IF ~_is_close(tb[i].tax_amount, ExpectedBreakdownTax(tb[i]))
            THEN << <<W("tax"), W("breakdown"), W(":"), Num(tb[i].rate), W("%"), W("of"),
                      Num(tb[i].taxable_amount), W("="),
                      Num(Quantize(ExpectedBreakdownTax(tb[i]), 100)), W(","),
                      W("document"), W("shows"), Num(tb[i].tax_amount)>> >>
            ELSE <<>>])
        line_tax_sum == RSum(LineTaxes(doc))
        sum_warnings ==
            IF RLt(Zero, line_tax_sum) /\ ~_is_close(doc.totals.total_tax, line_tax_sum)
            THEN << <<W("total"), W("tax"), Num(doc.totals.total_tax), W("differs"),
                      W("from"), W("sum"), W("of"), W("line"), W("item"), W("taxes"),
                      Num(Quantize(line_tax_sum, 100))>> >>
            ELSE <<>>
    IN  ValidationResult(TRUE, <<>>, entry_warnings \o sum_warnings)

ExpectedTotal_NoShipping(doc) ==
    LET t == doc.totals
        base == RAdd(t.subtotal, t.total_tax)
    IN  IF Truthy(t.rounding_amount) THEN RAdd(base, t.rounding_amount[1]) ELSE base

\* subtotal + total_tax (+ shipping) (+ rounding)
ExpectedTotal(doc) ==
    LET t == doc.totals
        base == RAdd(t.subtotal, t.total_tax)
        with_shipping == IF Truthy(t.shipping_amount)
                         THEN RAdd(base, t.shipping_amount[1]) ELSE base
    IN  IF Truthy(t.rounding_amount)
        THEN RAdd(with_shipping, t.rounding_amount[1]) ELSE with_shipping

\* total_amount (- prepaid)
ExpectedDue(doc) ==
    IF Truthy(doc.totals.prepaid_amount)
    THEN RSub(doc.totals.total_amount, doc.totals.prepaid_amount[1])
    ELSE doc.totals.total_amount

GrandTotalError(doc) ==
    LET t == doc.totals
        shipping_str == IF Truthy(t.shipping_amount)
                        THEN <<W("+"), W("shipping"), W("("), Num(t.shipping_amount[1]), W(")")>>
                        ELSE <<>>
    IN  <<W("grand"), W("total"), W("mismatch"), W(":"), W("document"), W("shows"),
          Num(t.total_amount), W(","), W("but"), W("subtotal"), W("("), Num(t.subtotal),
          W(")"), W("+"), W("tax"), W("("), Num(t.total_tax), W(")")>>
        \o shipping_str \o <<W("="), Num(Quantize(ExpectedTotal(doc), 100))>>

AmountDueError(doc) ==
    <<W("amount"), W("due"), Num(doc.totals.amount_due[1]), W("doesn't"), W("match"),
      W("expected"), Num(Quantize(ExpectedDue(doc), 100))>>

_validate_grand_total_DueAgainstTotal(doc, is_us_style) ==
    LET t == doc.totals
        expected_total == ExpectedTotal(doc)
        total_errors == IF ~_is_close(t.total_amount, expected_total)
                        THEN <<GrandTotalError(doc)>> ELSE <<>>
        due_errors ==
            IF /\ t.amount_due # None
               /\ ~_is_close(t.amount_due[1], ExpectedDue(doc))
               /\ ~_is_close(t.amount_due[1], t.total_amount)
            THEN <<AmountDueError(doc)>> ELSE <<>>
        errors == total_errors \o due_errors
    IN  ValidationResult(Len(errors) = 0, errors, <<>>)

_validate_grand_total(doc, is_us_style) ==
    LET t == doc.totals
        expected_total == ExpectedTotal(doc)
        total_errors == IF ~_is_close(t.total_amount, expected_total)
                        THEN <<GrandTotalError(doc)>> ELSE <<>>
        due_errors ==
            IF /\ t.amount_due # None
               /\ ~_is_close(t.amount_due[1], ExpectedDue(doc))
               /\ ~_is_close(t.amount_due[1], expected_total)
            THEN <<AmountDueError(doc)>> ELSE <<>>
        errors == total_errors \o due_errors
    IN  ValidationResult(Len(errors) = 0, errors, <<>>)

MathValidator_validate(doc) ==
    LET is_us_style == _is_us_style_invoice(doc)
        r0 == ValidationResult(TRUE, <<>>, <<>>)
        r1 == merge(r0, _validate_line_items(doc, is_us_style))
        r2 == merge(r1, _validate_subtotal(doc, is_us_style))
        r3 == merge(r2, IF is_us_style THEN _validate_us_style_tax(doc)
                        ELSE _validate_eu_style_tax(doc))
    IN  merge(r3, _validate_grand_total(doc, is_us_style))

(***************************************************************************)
(* Documents.  A line item and the totals carry exactly the fields the     *)
(* validators and the reconciler read (core/models.py).                    *)
(***************************************************************************)
LineItem(ln, q, p, rate, tax, lt) ==
    [line_number |-> ln, description |-> None, quantity |-> q, unit_price |-> p,
     discount_percent |-> None, discount_amount |-> None,
     tax_rate |-> rate, tax_amount |-> tax, line_total |-> lt]

Totals(sub, tb, tax, total, due) ==
    [subtotal |-> sub, tax_breakdown |-> tb, total_tax |-> tax,
     shipping_amount |-> None, total_amount |-> total, amount_due |-> due,
     prepaid_amount |-> None, rounding_amount |-> None]

TaxBreakdown(rate, taxable, tax) == [rate |-> rate, taxable_amount |-> taxable, tax_amount |-> tax]

\* a VAT id as _is_valid_vat_format sees it after cleaning: a country prefix
\* followed by a run of digits (the digits 1, 2, 3, ..., or downwards to 1
\* when descending)
VatId(prefix, digits) == [prefix |-> prefix, digits |-> digits, descending |-> FALSE]

\* of a party the validators read tax_id and address.country; name and
\* bank.iban are texts (sequences of characters) or None
Party(tax_id, country) ==
    [name |-> None, tax_id |-> tax_id, country |-> country, iban |-> None]
\* Party(): every field at its default
NoParty == Party(None, None)

Date(y, m, d) == [y |-> y, m |-> m, d |-> d]

\* DocumentInfo: number is a text or None, the dates are a Date or None
DocumentInfo(number, issue_date, due_date, currency) ==
    [number |-> number, issue_date |-> issue_date, due_date |-> due_date,
     currency |-> currency]
\* DocumentInfo(): every field at its default
NoDocumentInfo == DocumentInfo(None, None, None, <<"E", "U", "R">>)

CanonicalDocument(items, totals) ==
    [line_items |-> items, totals |-> totals, supplier |-> NoParty, customer |-> NoParty,
     document |-> NoDocumentInfo]

\* tests/conftest.py: sample_canonical_document
FixtureDoc ==
    [CanonicalDocument(
        <<[LineItem(1, D(10), D(100), Some(D(21)), D(210), D(1210))
              EXCEPT !.description = Some(<<"W", "i", "d", "g", "e", "t", " ", "A">>)],
          [LineItem(2, D(5), D(50), Some(D(21)), Norm(5250, 100), Norm(30250, 100))
              EXCEPT !.description = Some(<<"W", "i", "d", "g", "e", "t", " ", "B">>)]>>,
        Totals(D(1250), <<TaxBreakdown(D(21), D(1250), Norm(26250, 100))>>,
               Norm(26250, 100), Norm(151250, 100), Some(Norm(151250, 100))))
     EXCEPT !.supplier = [Party(Some(VatId("CZ", 8)), Some("CZ")) EXCEPT
                             !.name = Some(<<"A", "c", "m", "e", " ", "C", "o", "r", "p",
                                             "o", "r", "a", "t", "i", "o", "n">>),
                             !.iban = Some(<<"C", "Z", "6", "5", "0", "8", "0", "0", "0", "0", "0", "0",
                                             "1", "9", "2", "0", "0", "0", "1", "4", "5", "3", "9", "9">>)],
            !.customer = [Party(Some([VatId("CZ", 8) EXCEPT !.descending = TRUE]),
                                Some("CZ")) EXCEPT
                             !.name = Some(<<"C", "u", "s", "t", "o", "m", "e", "r", " ",
                                             "L", "t", "d">>)],
            !.document = DocumentInfo(Some(<<"I", "N", "V", "-", "2", "0", "2", "4", "-",
                                             "0", "0", "1">>),
                                      Some(Date(2024, 1, 15)), Some(Date(2024, 2, 15)),
                                      <<"E", "U", "R">>)]

\* the one-line sample document of the end-to-end scenarios
SampleDoc ==
    CanonicalDocument(
        <<LineItem(1, D(10), D(100), Some(D(21)), D(210), D(1210))>>,
        Totals(D(1000), <<>>, D(210), D(1210), Some(D(1210))))

\* a lump-sum receipt: tax only at the bottom
LumpSumDoc ==
    CanonicalDocument(
        <<LineItem(1, D(2), D(50), None, Zero, D(100))>>,
        Totals(D(100), <<TaxBreakdown(D(8), D(100), D(8))>>, D(8), D(108), Some(D(108))))

(***************************************************************************)
(* validators/tax_validator.py.  The tables are cut down to the countries  *)
(* the modelled documents use; a pattern ^CCd{m,n}$ is the set m..n of     *)
(* digit counts it admits.                                                 *)
(***************************************************************************)
COUNTRY_VAT_RATES ==
    [c \in {"CZ", "DE", "SK", "US"} |->
        CASE c = "CZ" -> {D(21), D(15), D(10)}
          [] c = "DE" -> {D(19), D(7)}
          [] c = "SK" -> {D(20), D(10)}
          [] c = "US" -> {}]

VAT_ID_PATTERNS ==
    [c \in {"CZ", "DE", "SK"} |->
        CASE c = "CZ" -> 8..10
          [] c = "DE" -> {9}
          [] c = "SK" -> {10}]

\* str.upper() on the country codes that occur
Upper(c) ==
    CASE c = "cz" -> "CZ"
      [] c = "sk" -> "SK"
      [] OTHER -> c

_is_valid_vat_format(vat_id) ==
    IF vat_id.prefix \in DOMAIN VAT_ID_PATTERNS
    THEN vat_id.digits \in VAT_ID_PATTERNS[vat_id.prefix]
    ELSE TRUE

VatIdWarning(who, vat_id) ==
    <<W(who), W("vat"), W("id"), W(vat_id.prefix), Num(D(vat_id.digits)),
      W("may"), W("have"), W("invalid"), W("format")>>

_validate_vat_ids(doc) ==
    LET check(who, party) ==
            IF party.tax_id # None /\ ~_is_valid_vat_format(party.tax_id[1])
            THEN <<VatIdWarning(who, party.tax_id[1])>> ELSE <<>>
    IN  ValidationResult(TRUE, <<>>,
                         check("supplier", doc.supplier) \o check("customer", doc.customer))

RateWarning(rate, country) ==
    <<W("tax"), W("rate"), Num(rate), W("%"), W("is"), W("not"), W("a"), W("standard"),
      W("vat"), W("rate"), W("for"), W(country), W("."), W("standard"), W("rates")>>

\* the elements of a set of amounts, smallest first
RECURSIVE Ascending(_)
Ascending(S) ==
    IF S = {} THEN <<>>
    ELSE LET m == CHOOSE x \in S : \A y \in S : RLe(x, y)
         IN  <<m>> \o Ascending(S \ {m})

\* one warning per rate used that is neither 0 nor in the country's table; the
\* code walks a set of rates, here taken smallest first
_validate_tax_rates(doc) ==
    IF doc.supplier.country = None THEN ValidationResult(TRUE, <<>>, <<>>)
    ELSE
    LET country == Upper(doc.supplier.country[1])
        valid_rates == IF country \in DOMAIN COUNTRY_VAT_RATES
                       THEN COUNTRY_VAT_RATES[country] ELSE {}
        used_rates ==
            {doc.line_items[i].tax_rate[1] :
                i \in {k \in 1..Len(doc.line_items) : doc.line_items[k].tax_rate # None}}
            \cup {doc.totals.tax_breakdown[i].rate : i \in 1..Len(doc.totals.tax_breakdown)}
        odd == Ascending({r \in used_rates : r \notin valid_rates /\ r # Zero})
    IN  IF valid_rates = {} THEN ValidationResult(TRUE, <<>>, <<>>)
        ELSE ValidationResult(TRUE, <<>>,
                              [k \in 1..Len(odd) |-> RateWarning(odd[k], country)])

TaxValidator_validate(doc) ==
    merge(merge(ValidationResult(TRUE, <<>>, <<>>), _validate_vat_ids(doc)),
          _validate_tax_rates(doc))

\* DocumentPipeline._validate
_validate(doc) == merge(MathValidator_validate(doc), TaxValidator_validate(doc))

(***************************************************************************)
(* Extraction results (extractors/base.py).  A text is the sequence of its *)
(* lines; of a line the reconciler sees whether it contains "total" and    *)
(* the numeric literals the pattern [-+]?[0-9]+(?:[.,][0-9]{1,2})? finds.  *)
(***************************************************************************)
Literal(whole, sep, frac, fraclen) == [whole |-> whole, sep |-> sep, frac |-> frac, fraclen |-> fraclen]
TextLine(has_total, literals) == [has_total |-> has_total, literals |-> literals]
NoText == [present |-> FALSE, lines |-> <<>>]
Text(lines) == [present |-> TRUE, lines |-> lines]

\* bounding_boxes: the OCR's boxes in reading order, of each its text
ExtractionResult(text, structured_data) ==
    [text |-> text, structured_data |-> structured_data, bounding_boxes |-> <<>>]

has_content_AnyText(er) == er.text.present \/ er.structured_data = "data"

\* bool(self.text) or bool(self.structured_data)
has_content(er) ==
    (er.text.present /\ er.text.lines # <<>>) \/ er.structured_data = "data"

Pow10(k) == IF k = 0 THEN 1 ELSE IF k = 1 THEN 10 ELSE 100

\* Decimal(m.replace(",", "")): a "," is deleted, a "." is the decimal point
LiteralValue(m) ==
    IF m.sep = "." THEN Norm(m.whole * Pow10(m.fraclen) + m.frac, Pow10(m.fraclen))
    ELSE IF m.sep = "," THEN D(m.whole * Pow10(m.fraclen) + m.frac)
    ELSE D(m.whole)

LiteralValues(line) == [k \in 1..Len(line.literals) |-> LiteralValue(line.literals[k])]

\* every literal on a line containing "total" and on the line after it
TotalCandidates(lines) ==
    SeqConcat([idx \in 1..Len(lines) |->
        IF ~lines[idx].has_total THEN <<>>
        ELSE LiteralValues(lines[idx])
             \o (IF idx + 1 <= Len(lines) THEN LiteralValues(lines[idx + 1]) ELSE <<>>)])

RECURSIVE RMaxSeq(_)
RMaxSeq(s) == IF Len(s) = 1 THEN s[1] ELSE RMax(s[1], RMaxSeq(Tail(s)))

\* no return when the totals already match, and the tax is taken off the
\* subtotal in place
_reconcile_totals_with_ocr_Accumulating(ocr_text, doc) ==
    LET total_candidates == TotalCandidates(ocr_text.lines) IN
    IF ~ocr_text.present \/ ocr_text.lines = <<>> THEN doc
    ELSE IF total_candidates = <<>> THEN doc
    ELSE [doc EXCEPT !.totals.total_amount = RMaxSeq(total_candidates),
                     !.totals.amount_due = Some(RMaxSeq(total_candidates)),
                     !.totals.subtotal = RSub(doc.totals.subtotal, doc.totals.total_tax)]

\* LLMExtractor._reconcile_totals_with_ocr and DocumentPipeline._align_totals_with_ocr
\* (the same code twice); returns the document as the in-place mutation leaves it
_reconcile_totals_with_ocr(ocr_text, doc) ==
    LET total_candidates == TotalCandidates(ocr_text.lines) IN
    IF ~ocr_text.present \/ ocr_text.lines = <<>> THEN doc
    ELSE IF total_candidates = <<>> THEN doc
    ELSE
    LET printed_total == RMaxSeq(total_candidates)
        tolerance == Norm(2, 100)
    IN
    IF RLe(RAbs(RSub(doc.totals.total_amount, printed_total)), tolerance) THEN doc
    ELSE
    LET doc1 == [doc EXCEPT !.totals.total_amount = printed_total,
                            !.totals.amount_due = Some(printed_total),
                            !.totals.subtotal = RSub(printed_total, doc.totals.total_tax)]
        n == Len(doc.line_items)
        current_sum == RSum(LineTotals(doc))
        diff == RSub(printed_total, current_sum)
    IN
    IF n = 0 THEN doc1
    ELSE IF RLe(RAbs(diff), tolerance) THEN doc1
    ELSE
    LET new_total == RAdd(doc.line_items[n].line_total, diff)
        unit_price == doc.line_items[n].unit_price
    IN  IF unit_price.n # 0
        THEN [doc1 EXCEPT !.line_items[n].line_total = new_total,
                          !.line_items[n].quantity = Quantize(RDiv(new_total, unit_price), 10000)]
        ELSE [doc1 EXCEPT !.line_items[n].line_total = new_total]

\* the subtotal is left as the LLM gave it
_align_totals_with_ocr_KeepsSubtotal(ocr_text, doc) ==
    [_reconcile_totals_with_ocr(ocr_text, doc) EXCEPT !.totals.subtotal = doc.totals.subtotal]

_align_totals_with_ocr(ocr_text, doc) == _reconcile_totals_with_ocr(ocr_text, doc)

(***************************************************************************)
(* LLM responses and their conversion (normalizers/llm_extractor.py).      *)
(* A response is an exception, no content, text that is not JSON, a JSON   *)
(* array, or a JSON object.  Of an object the model keeps the sections the *)
(* engine reads; a field of a section is absent (<<>>) or a number.        *)
(***************************************************************************)
JsonItem(ln, q, p, rate, tax, lt) ==
    [line_number |-> ln, quantity |-> q, unit_price |-> p,
     tax_rate |-> rate, tax_amount |-> tax, line_total |-> lt]

JsonTotals(sub, tb, tax, ship, total, due, rounding) ==
    [subtotal |-> sub, tax_breakdown |-> tb, total_tax |-> tax, shipping_amount |-> ship,
     total_amount |-> total, amount_due |-> due, rounding_amount |-> rounding]

NoJsonTotals == JsonTotals(None, <<>>, None, None, None, None, None)

\* keys: the top-level keys present; totals_null: the object holds "totals": null
\* a party section: "tax_id" and "address"."country" (a two-letter code), or absent
JsonParty(tax_id, country) == [tax_id |-> tax_id, country |-> country]
NoJsonParty == JsonParty(None, None)

JsonObject(keys, items, totals, totals_null) ==
    [kind |-> "object", keys |-> keys, line_items |-> items, totals |-> totals,
     totals_null |-> totals_null, supplier |-> NoJsonParty, customer |-> NoJsonParty]

EmptyObject == JsonObject({}, <<>>, NoJsonTotals, FALSE)
JsonArray == [kind |-> "array", keys |-> {}, line_items |-> <<>>, totals |-> NoJsonTotals,
              totals_null |-> FALSE, supplier |-> NoJsonParty, customer |-> NoJsonParty]

Throws == [kind |-> "throw", data |-> EmptyObject]
NoContent == [kind |-> "empty", data |-> EmptyObject]
NotJson == [kind |-> "garbage", data |-> EmptyObject]
Returns(data) == [kind |-> "json", data |-> data]

\* Python truthiness of the parsed JSON: {} and [] are falsy
DataTruthy(data) == data.kind = "object" /\ data.keys # {}

\* dict.get(key, default) followed by _to_decimal
Get(field, default) == IF field = None THEN default ELSE field[1]
\* Decimal(str(d.get(key, 0) or 0))
GetOrZero(field) == Get(field, Zero)
\* _to_decimal(d.get(key)) if d.get(key) else None
GetIfTruthy(field) == IF Truthy(field) THEN field ELSE None

\* the sections of the object have the types the conversion indexes into
DocumentShaped(data) == data.kind = "object" /\ ~data.totals_null

_extraction_looks_valid(data) ==
    IF data.kind # "object" THEN FALSE
    ELSE IF data.line_items = <<>> THEN TRUE
    ELSE
    LET items == data.line_items
        line_ok(item) ==
            LET qty == GetOrZero(item.quantity)
                price == GetOrZero(item.unit_price)
                line_total == GetOrZero(item.line_total)
                expected == RMul(qty, price)
                tolerance == RMul(line_total, Norm(5, 100))
            IN  \/ qty.n = 0 \/ price.n = 0 \/ line_total.n = 0
                \/ RLe(RAbs(RSub(expected, line_total)), RMax(tolerance, D(1)))
        total_amount == GetOrZero(data.totals.total_amount)
        sum_lines == RSum([k \in 1..Len(items) |-> GetOrZero(items[k].line_total)])
    IN  IF \E k \in 1..Len(items) : ~line_ok(items[k]) THEN FALSE
        ELSE IF data.totals_null THEN FALSE
        ELSE IF /\ RLt(Zero, total_amount)
                /\ RLt(RMax(RMul(total_amount, Norm(1, 10)), D(5)),
                       RAbs(RSub(sum_lines, total_amount)))
             THEN FALSE
        ELSE TRUE

\* a two-letter code is upper-cased; country names are not modelled
_normalize_country(value) == IF value = None THEN None ELSE Some(Upper(value[1]))

_parse_party(data) == Party(data.tax_id, _normalize_country(data.country))

\* the converted data as they are, without the reconciliation at the end
_to_canonical_document_Unreconciled(data, ocr_text) ==
    LET supplier == _parse_party(data.supplier)
        customer == IF data.customer # NoJsonParty
                    THEN _parse_party(data.customer) ELSE NoParty
        line_items == [idx \in 1..Len(data.line_items) |->
            LET item_data == data.line_items[idx] IN
            [line_number |-> Get(item_data.line_number, idx),
             description |-> None,
             quantity |-> Get(item_data.quantity, D(1)),
             unit_price |-> Get(item_data.unit_price, Zero),
             discount_percent |-> None,
             discount_amount |-> None,
             tax_rate |-> GetIfTruthy(item_data.tax_rate),
             tax_amount |-> Get(item_data.tax_amount, Zero),
             line_total |-> Get(item_data.line_total, Zero)]]
        totals_data == data.totals
        tax_breakdown == [k \in 1..Len(totals_data.tax_breakdown) |->
            [rate |-> Get(totals_data.tax_breakdown[k].rate, Zero),
             taxable_amount |-> Get(totals_data.tax_breakdown[k].taxable_amount, Zero),
             tax_amount |-> Get(totals_data.tax_breakdown[k].tax_amount, Zero)]]
        totals == [subtotal |-> Get(totals_data.subtotal, Zero),
                   tax_breakdown |-> tax_breakdown,
                   total_tax |-> Get(totals_data.total_tax, Zero),
                   shipping_amount |-> GetIfTruthy(totals_data.shipping_amount),
                   total_amount |-> Get(totals_data.total_amount, Zero),
                   amount_due |-> GetIfTruthy(totals_data.amount_due),
                   prepaid_amount |-> None,
                   rounding_amount |-> GetIfTruthy(totals_data.rounding_amount)]
    IN  [CanonicalDocument(line_items, totals)
         EXCEPT !.supplier = supplier, !.customer = customer]

\* LLMExtractor._to_canonical_document, for a document-shaped object
_to_canonical_document(data, ocr_text) ==
    LET supplier == _parse_party(data.supplier)
        customer == IF data.customer # NoJsonParty
                    THEN _parse_party(data.customer) ELSE NoParty
        line_items == [idx \in 1..Len(data.line_items) |->
            LET item_data == data.line_items[idx] IN
            [line_number |-> Get(item_data.line_number, idx),
             description |-> None,
             quantity |-> Get(item_data.quantity, D(1)),
             unit_price |-> Get(item_data.unit_price, Zero),
             discount_percent |-> None,
             discount_amount |-> None,
             tax_rate |-> GetIfTruthy(item_data.tax_rate),
             tax_amount |-> Get(item_data.tax_amount, Zero),
             line_total |-> Get(item_data.line_total, Zero)]]
        totals_data == data.totals
        tax_breakdown == [k \in 1..Len(totals_data.tax_breakdown) |->
            [rate |-> Get(totals_data.tax_breakdown[k].rate, Zero),
             taxable_amount |-> Get(totals_data.tax_breakdown[k].taxable_amount, Zero),
             tax_amount |-> Get(totals_data.tax_breakdown[k].tax_amount, Zero)]]
        totals == [subtotal |-> Get(totals_data.subtotal, Zero),
                   tax_breakdown |-> tax_breakdown,
                   total_tax |-> Get(totals_data.total_tax, Zero),
                   shipping_amount |-> GetIfTruthy(totals_data.shipping_amount),
                   total_amount |-> Get(totals_data.total_amount, Zero),
                   amount_due |-> GetIfTruthy(totals_data.amount_due),
                   prepaid_amount |-> None,
                   rounding_amount |-> GetIfTruthy(totals_data.rounding_amount)]
    IN  _reconcile_totals_with_ocr(ocr_text,
            [CanonicalDocument(line_items, totals)
             EXCEPT !.supplier = supplier, !.customer = customer])

(***************************************************************************)
(* Suggestions (core/pipeline.py)                                          *)
(***************************************************************************)
FieldPath(kind, index, field) == [kind |-> kind, index |-> index, field |-> field]
UnknownField == FieldPath("unknown", 0, "")

HasToken(msg, w) == \E k \in 1..Len(msg) : msg[k].w = w
FirstIndex(msg, w) == CHOOSE k \in 1..Len(msg) : msg[k].w = w /\ \A j \in 1..(k - 1) : msg[j].w # w
\* the tokens from position a on
From(msg, a) == SubSeq(msg, a, Len(msg))
\* int(re.search(r'\d+', text).group()): the first digit run of a printed number
DigitRun(v) == Abs(v.n) \div v.d

_extract_field_from_error(error) ==
    LET line_part == IF HasToken(error, ":")
                     THEN SubSeq(error, 1, FirstIndex(error, ":") - 1) ELSE error
        line_field ==
            IF MsgHas(error, <<"line">>) /\ HasToken(error, ":") /\ HasToken(line_part, "#")
            THEN LET line_num == DigitRun(line_part[FirstIndex(line_part, "#")].v) IN
                 IF MsgHas(error, <<"tax", "amount">>)
                 THEN FieldPath("line_items", line_num - 1, "tax_amount")
                 ELSE IF MsgHas(error, <<"total">>)
                      THEN FieldPath("line_items", line_num - 1, "line_total")
                      ELSE UnknownField
            ELSE UnknownField
    IN  IF line_field # UnknownField THEN line_field
        ELSE IF MsgHas(error, <<"subtotal">>) THEN FieldPath("totals", 0, "subtotal")
        ELSE IF MsgHas(error, <<"grand", "total">>) \/ MsgHas(error, <<"total", "amount">>)
             THEN FieldPath("totals", 0, "total_amount")
        ELSE IF MsgHas(error, <<"total", "tax">>) THEN FieldPath("totals", 0, "total_tax")
        ELSE IF MsgHas(error, <<"amount", "due">>) THEN FieldPath("totals", 0, "amount_due")
        ELSE IF MsgHas(error, <<"tax", "breakdown">>) THEN FieldPath("totals", 0, "tax_breakdown")
        ELSE UnknownField

\* re.findall(r"[\d.]+", text)[0] when there is one: the first printed number
FirstNumber(msg) ==
    IF HasToken(msg, "#") THEN Some(RAbs(msg[FirstIndex(msg, "#")].v)) ELSE None

_get_extracted_value(error) == FirstNumber(error)

\* the number after "expected", else after "should be", else "review required" (None)
_get_suggested_value(error) ==
    LET after_expected ==
            IF HasToken(error, "expected")
            THEN LET rest == From(error, FirstIndex(error, "expected") + 1)
                     part == IF HasToken(rest, "expected")
                             THEN SubSeq(rest, 1, FirstIndex(rest, "expected") - 1) ELSE rest
                 IN  FirstNumber(part)
            ELSE None
        should_be == {k \in 1..(Len(error) - 1) : error[k].w = "should" /\ error[k + 1].w = "be"}
        after_should_be ==
            IF should_be # {}
            THEN LET a == CHOOSE k \in should_be : \A j \in should_be : k <= j
                     rest == From(error, a + 2)
                     nxt == {k \in 1..(Len(rest) - 1) : rest[k].w = "should" /\ rest[k + 1].w = "be"}
                     part == IF nxt # {}
                             THEN SubSeq(rest, 1, (CHOOSE k \in nxt : \A j \in nxt : k <= j) - 1)
                             ELSE rest
                 IN  FirstNumber(part)
            ELSE None
    IN  IF after_expected # None THEN after_expected ELSE after_should_be

AISuggestion(error) ==
    [field |-> _extract_field_from_error(error),
     extracted_value |-> _get_extracted_value(error),
     ai_suggestion |-> _get_suggested_value(error),
     reason |-> error,
     needs_human_review |-> TRUE]

_build_suggestions_FirstOnly(validation_result) ==
    [k \in 1..1 |-> AISuggestion(validation_result.errors[k])]

_build_suggestions(validation_result) ==
    [k \in 1..Len(validation_result.errors) |-> AISuggestion(validation_result.errors[k])]

(***************************************************************************)
(* Texts.  A str is a sequence of characters, each character a one-letter  *)
(* string; the currency signs the linker strips are the characters "euro", *)
(* "$", "pound" and "yen".                                                 *)
(***************************************************************************)
DigitChars == <<"0", "1", "2", "3", "4", "5", "6", "7", "8", "9">>
Digit(k) == DigitChars[k + 1]
IsDigit(c) == \E k \in 0..9 : Digit(k) = c
DigitValue(c) == CHOOSE k \in 0..9 : Digit(k) = c

RECURSIVE TenTo(_)
TenTo(k) == IF k = 0 THEN 1 ELSE 10 * TenTo(k - 1)

\* str(n) of a natural number
RECURSIVE Digits(_)
Digits(n) == IF n < 10 THEN <<Digit(n)>> ELSE Append(Digits(n \div 10), Digit(n % 10))

\* int() of a run of digits
RECURSIVE DigitsValue(_)
DigitsValue(s) ==
    IF s = <<>> THEN 0
    ELSE 10 * DigitsValue(SubSeq(s, 1, Len(s) - 1)) + DigitValue(s[Len(s)])

\* '0' * k
Zeros(k) == [i \in 1..k |-> "0"]

\* str.replace(a, b) for single characters
Replace(s, a, b) == [k \in 1..Len(s) |-> IF s[k] = a THEN b ELSE s[k]]

\* removal of every character of a class: re.sub('[...]', '', s), s.replace(a, '')
RemoveChars(s, class) == SelectSeq(s, LAMBDA c : c \notin class)

\* str.strip(chars)
StripChars(s, class) ==
    LET keep == {k \in 1..Len(s) : s[k] \notin class}
    IN  IF keep = {} THEN <<>>
        ELSE SubSeq(s, CHOOSE k \in keep : \A j \in keep : k <= j,
                       CHOOSE k \in keep : \A j \in keep : k >= j)

Whitespace == {" "}
Strip(s) == StripChars(s, Whitespace)

\* str.split(): the maximal runs of non-whitespace characters
RECURSIVE Split(_)
Split(s) ==
    LET t == IF Strip(s) = <<>> THEN <<>>
             ELSE SubSeq(s, CHOOSE k \in 1..Len(s) : s[k] \notin Whitespace
                                    /\ \A j \in 1..(k - 1) : s[j] \in Whitespace, Len(s))
        stops == {k \in 1..Len(t) : t[k] \in Whitespace}
        end == IF stops = {} THEN Len(t) + 1 ELSE CHOOSE k \in stops : \A j \in stops : k <= j
    IN  IF t = <<>> THEN <<>>
        ELSE <<SubSeq(t, 1, end - 1)>> \o Split(SubSeq(t, end, Len(t)))

\* Decimal(text): None stands for InvalidOperation.  The texts of the model
\* are signs, digits and one decimal point; exponents and the special values
\* (NaN, Infinity) do not occur in them.
DecimalOf(s) ==
    LET signed == s # <<>> /\ s[1] \in {"-", "+"}
        body == IF signed THEN Tail(s) ELSE s
        dots == {k \in 1..Len(body) : body[k] = "."}
        digits == SelectSeq(body, IsDigit)
        ok == /\ Cardinality(dots) <= 1
              /\ digits # <<>>
              /\ \A k \in 1..Len(body) : IsDigit(body[k]) \/ body[k] = "."
        fraclen == IF dots = {} THEN 0 ELSE Len(body) - (CHOOSE k \in dots : TRUE)
        magnitude == Norm(DigitsValue(digits), TenTo(fraclen))
    IN  IF ~ok THEN None
        ELSE Some(IF s[1] = "-" THEN RNeg(magnitude) ELSE magnitude)

\* decimal.Decimal.__str__ for sign, coefficient and exponent
DecimalStr(negative, coefficient, exp) ==
    LET int == Digits(coefficient)
        leftdigits == exp + Len(int)
        dotplace == IF exp <= 0 /\ leftdigits > -6 THEN leftdigits ELSE 1
        intpart == IF dotplace <= 0 THEN <<"0">>
                   ELSE IF dotplace >= Len(int) THEN int \o Zeros(dotplace - Len(int))
                   ELSE SubSeq(int, 1, dotplace)
        fracpart == IF dotplace <= 0 THEN <<".">> \o Zeros(-dotplace) \o int
                    ELSE IF dotplace >= Len(int) THEN <<>>
                    ELSE <<".">> \o SubSeq(int, dotplace + 1, Len(int))
        exponent == IF leftdigits = dotplace THEN <<>>
                    ELSE <<"E", IF leftdigits - dotplace < 0 THEN "-" ELSE "+">>
                         \o Digits(Abs(leftdigits - dotplace))
    IN  (IF negative THEN <<"-">> ELSE <<>>) \o intpart \o fracpart \o exponent

\* the least k with value * 10^k whole
RECURSIVE MinScale(_, _)
MinScale(v, k) == IF (Abs(v.n) * TenTo(k)) % v.d = 0 THEN k ELSE MinScale(v, k + 1)

RECURSIVE TrailingZeros(_)
TrailingZeros(n) == IF n # 0 /\ n % 10 = 0 THEN 1 + TrailingZeros(n \div 10) ELSE 0

\* str(value.normalize()): the coefficient without trailing zeros, so a whole
\* number ending in zeros comes out in scientific notation (1000 -> 1E+3)
StrNormalized(v) ==
    LET k == MinScale(v, 0)
        scaled == (Abs(v.n) * TenTo(k)) \div v.d
        z == IF k = 0 THEN TrailingZeros(scaled) ELSE 0
    IN  DecimalStr(v.n < 0, scaled \div TenTo(z), z - k)

\* str(value.quantize(Decimal('0.01')))
StrQuantized(v) ==
    LET q == Quantize(v, 100)
    IN  DecimalStr(v.n < 0, (Abs(q.n) * 100) \div q.d, -2)

\* str(int(value)) of a whole value
StrInt(v) == (IF v.n < 0 THEN <<"-">> ELSE <<>>) \o Digits(Abs(v.n))

\* str(date): YYYY-MM-DD
StrDate(date) ==
    LET pad(n, width) == Zeros(width - Len(Digits(n))) \o Digits(n)
    IN  pad(date.y, 4) \o <<"-">> \o pad(date.m, 2) \o <<"-">> \o pad(date.d, 2)

\* the text of a VAT id: the letters of the prefix, then its digits
VatIdText(vat_id) ==
    (CASE vat_id.prefix = "CZ" -> <<"C", "Z">>
       [] vat_id.prefix = "DE" -> <<"D", "E">>
       [] vat_id.prefix = "SK" -> <<"S", "K">>
       [] OTHER -> <<"X", "X">>)
    \o [i \in 1..vat_id.digits |->
           Digit((IF vat_id.descending THEN vat_id.digits - i + 1 ELSE i) % 10)]

(***************************************************************************)
(* Field linker: DocumentPipeline._link_bounding_boxes_to_fields           *)
(* field_map is the dict from text to field path, a function whose domain  *)
(* is the set of registered keys.                                          *)
(***************************************************************************)
\* field_map[key] = field_path: the new entry replaces an entry the key had
MapPut(field_map, key, field_path) == (key :> field_path) @@ field_map

\* dict.get: None when the key is absent
MapGet(field_map, key) == IF key \in DOMAIN field_map THEN Some(field_map[key]) ELSE None

\* a or b
OrElse(a, b) == IF a # None THEN a ELSE b

EmptyFieldMap == <<>>

add_number_variants(field_map, value, field_path) ==
    IF value = None THEN field_map
    ELSE LET normalized == StrNormalized(value[1])
             clean == StrQuantized(value[1])
             m1 == MapPut(field_map, normalized, field_path)
             m2 == MapPut(m1, Replace(normalized, ".", ","), field_path)
             m3 == MapPut(m2, clean, field_path)
             m4 == MapPut(m3, Replace(clean, ".", ","), field_path)
         IN  IF value[1].d = 1 THEN MapPut(m4, StrInt(value[1]), field_path) ELSE m4

RECURSIVE AddWords(_, _, _)
AddWords(field_map, words, field_path) ==
    IF words = <<>> THEN field_map
    ELSE LET clean_word == StripChars(Head(words), {".", ",", ";", ":"})
         IN  AddWords(IF Len(clean_word) > 3 /\ clean_word \notin DOMAIN field_map
                      THEN MapPut(field_map, clean_word, field_path) ELSE field_map,
                      Tail(words), field_path)

add_text_variants(field_map, value, field_path) ==
    IF value = None \/ value = Some(<<>>) THEN field_map
    ELSE LET stripped == Strip(value[1])
             words == Split(stripped)
             m1 == MapPut(field_map, stripped, field_path)
         IN  IF Len(words) > 1 THEN AddWords(m1, words, field_path) ELSE m1

\* The statements of the linker run one after another: The({body : m \in {e}})
\* is body with m standing for the value of e.
The(S) == CHOOSE x \in S : TRUE

AddTotals(field_map, totals) ==
    The({The({The({add_number_variants(m3, totals.amount_due,
                                       FieldPath("totals", 0, "amount_due")) :
        m3 \in {add_number_variants(m2, Some(totals.total_amount),
                                    FieldPath("totals", 0, "total_amount"))}}) :
        m2 \in {add_number_variants(m1, Some(totals.subtotal),
                                    FieldPath("totals", 0, "subtotal"))}}) :
        m1 \in {add_number_variants(field_map, Some(totals.total_tax),
                                    FieldPath("totals", 0, "total_tax"))}})

AddDate(field_map, date, field_path) ==
    IF date = None THEN field_map
    ELSE LET date_str == StrDate(date[1])
         IN  MapPut(MapPut(MapPut(field_map, date_str, field_path),
                     Replace(date_str, "-", "."), field_path),
                 Replace(date_str, "-", "/"), field_path)

AddDocumentInfo(field_map, document) ==
    LET m1 == add_text_variants(field_map, document.number, FieldPath("document", 0, "number"))
        m2 == AddDate(m1, document.issue_date, FieldPath("document", 0, "issue_date"))
        m3 == AddDate(m2, document.due_date, FieldPath("document", 0, "due_date"))
    IN  IF document.currency # <<>>
        THEN MapPut(m3, document.currency, FieldPath("document", 0, "currency")) ELSE m3

AddParty(field_map, party, party_type) ==
    LET m1 == add_text_variants(field_map, party.name, FieldPath(party_type, 0, "name"))
        m2 == add_text_variants(m1, IF party.tax_id = None THEN None
                                    ELSE Some(VatIdText(party.tax_id[1])),
                                FieldPath(party_type, 0, "tax_id"))
    IN  add_text_variants(m2, party.iban, FieldPath(party_type, 0, "bank.iban"))

\* the statements of the loop body for the item at position i
AddLineItem(field_map, item, i) ==
    The({The({The({The({The({add_number_variants(m5, item.tax_rate,
                                 FieldPath("line_items", i - 1, "tax_rate")) :
        m5 \in {add_number_variants(m4, Some(item.tax_amount),
                                    FieldPath("line_items", i - 1, "tax_amount"))}}) :
        m4 \in {add_number_variants(m3, Some(item.line_total),
                                    FieldPath("line_items", i - 1, "line_total"))}}) :
        m3 \in {add_number_variants(m2, Some(item.unit_price),
                                    FieldPath("line_items", i - 1, "unit_price"))}}) :
        m2 \in {add_number_variants(m1, Some(item.quantity),
                                    FieldPath("line_items", i - 1, "quantity"))}}) :
        m1 \in {add_text_variants(field_map, item.description,
                                  FieldPath("line_items", i - 1, "description"))}})

\* the loop over enumerate(doc.line_items), from the item at position i
RECURSIVE AddLineItems(_, _, _)
AddLineItems(field_map, line_items, i) ==
    IF i > Len(line_items) THEN field_map
    ELSE The({AddLineItems(m, line_items, i + 1) :
                 m \in {AddLineItem(field_map, line_items[i], i)}})

BuildFieldMap(doc) ==
    The({The({The({The({AddLineItems(m4, doc.line_items, 1) :
        m4 \in {AddParty(m3, doc.customer, "customer")}}) :
        m3 \in {AddParty(m2, doc.supplier, "supplier")}}) :
        m2 \in {AddDocumentInfo(m1, doc.document)}}) :
        m1 \in {AddTotals(EmptyFieldMap, doc.totals)}})

CurrencySigns == {"euro", "$", "pound", "yen"}

_normalize_number_text_KeepsSpaces(text) ==
    LET stripped == RemoveChars(text, CurrencySigns)
        has(c) == \E k \in 1..Len(stripped) : stripped[k] = c
        cleaned == IF has(",") /\ ~has(".") THEN Replace(stripped, ",", ".")
                   ELSE IF has(",") /\ has(".") THEN RemoveChars(stripped, {","})
                   ELSE stripped
        parsed == DecimalOf(cleaned)
    IN  IF parsed = None THEN text ELSE StrNormalized(parsed[1])

_normalize_number_text(text) ==
    LET stripped == RemoveChars(text, CurrencySigns \cup Whitespace)
        has(c) == \E k \in 1..Len(stripped) : stripped[k] = c
        cleaned == IF has(",") /\ ~has(".") THEN Replace(stripped, ",", ".")
                   ELSE IF has(",") /\ has(".") THEN RemoveChars(stripped, {","})
                   ELSE stripped
        parsed == DecimalOf(cleaned)
    IN  IF parsed = None THEN text ELSE StrNormalized(parsed[1])

BoundingBox(text) == [text |-> text]
BoundingBoxModel(text, field_path) == [text |-> text, field_path |-> field_path]

\* the field a box resolves to, before the used_fields check
ResolveBox(field_map, box) ==
    LET box_text == Strip(box.text)
        normalized_text == _normalize_number_text(box_text)
    IN  OrElse(MapGet(field_map, normalized_text),
        OrElse(MapGet(field_map, box_text),
        OrElse(MapGet(field_map, Replace(box_text, ".", ",")),
               MapGet(field_map, Replace(box_text, ",", ".")))))

RECURSIVE LinkBoxes_Reusing(_, _, _)
LinkBoxes_Reusing(field_map, raw_boxes, used_fields) ==
    IF raw_boxes = <<>> THEN <<>>
    ELSE <<BoundingBoxModel(Head(raw_boxes).text, ResolveBox(field_map, Head(raw_boxes)))>>
         \o LinkBoxes_Reusing(field_map, Tail(raw_boxes), used_fields)

\* the loop over raw_boxes
RECURSIVE LinkBoxes(_, _, _)
LinkBoxes(field_map, raw_boxes, used_fields) ==
    IF raw_boxes = <<>> THEN <<>>
    ELSE LET box == Head(raw_boxes)
             found == ResolveBox(field_map, box)
             field_path == IF found # None /\ found[1] \in used_fields THEN None ELSE found
         IN  <<BoundingBoxModel(box.text, field_path)>>
             \o LinkBoxes(field_map, Tail(raw_boxes),
                          IF field_path # None THEN used_fields \cup {field_path[1]}
                          ELSE used_fields)

_link_bounding_boxes_to_fields(raw_boxes, doc) ==
    The({LinkBoxes(field_map, raw_boxes, {}) : field_map \in {BuildFieldMap(doc)}})

(***************************************************************************)
(* Reverse sync of annotation edits: api/routes/documents.py               *)
(* A field path is FieldPath(kind, index, field): "kind.field", or         *)
(* "line_items[index].field".  A str stored in a field whose model type is *)
(* not a text is kept as Str(chars).                                       *)
(***************************************************************************)
Str(chars) == [str |-> chars]
IsStr(v) == "str" \in DOMAIN v

\* the declared type of a field of the document (core/models.py); "absent"
\* for a name the object does not have
DeclaredType(kind, field) ==
    CASE kind = "totals" /\ field \in {"subtotal", "total_tax", "total_amount"} -> "decimal"
      [] kind = "totals" /\ field \in {"amount_due", "shipping_amount", "prepaid_amount",
                                       "rounding_amount"} -> "optional_decimal"
      [] kind = "totals" /\ field = "tax_breakdown" -> "list"
      [] kind = "line_items" /\ field \in {"quantity", "unit_price", "line_total",
                                           "tax_amount"} -> "decimal"
      [] kind = "line_items" /\ field \in {"tax_rate", "discount_percent",
                                           "discount_amount"} -> "optional_decimal"
      [] kind = "line_items" /\ field = "line_number" -> "int"
      [] kind = "line_items" /\ field = "description" -> "optional_text"
      [] kind = "document" /\ field \in {"issue_date", "due_date"} -> "optional_date"
      [] kind = "document" /\ field = "number" -> "optional_text"
      [] kind = "document" /\ field = "currency" -> "text"
      [] kind \in {"supplier", "customer"} /\ field \in {"name", "tax_id", "bank.iban"}
            -> "optional_text"
      [] OTHER -> "absent"

\* the record field that carries the path's last key
FieldName(field) == IF field = "bank.iban" THEN "iban" ELSE field

\* the object the path's leading parts lead to
Traverse(doc, path) ==
    IF path.kind = "line_items" THEN doc.line_items[path.index + 1] ELSE doc[path.kind]

GetField(doc, path) == Traverse(doc, path)[FieldName(path.field)]

SetField(doc, path, new_value) ==
    IF path.kind = "line_items"
    THEN [doc EXCEPT !.line_items[path.index + 1] =
                        [@ EXCEPT ![FieldName(path.field)] = new_value]]
    ELSE [doc EXCEPT ![path.kind] = [@ EXCEPT ![FieldName(path.field)] = new_value]]

\* isinstance of the current value: "Decimal", "date", "int" or "other"
RuntimeType(doc, path) ==
    LET declared == DeclaredType(path.kind, path.field)
        current == GetField(doc, path)
    IN  CASE declared = "decimal" -> "Decimal"
          [] declared = "int" -> "int"
          [] declared = "optional_decimal" ->
                IF current # None /\ ~IsStr(current[1]) THEN "Decimal" ELSE "other"
          [] declared = "optional_date" ->
                IF current # None /\ ~IsStr(current[1]) THEN "date" ELSE "other"
          [] OTHER -> "other"

\* str.split(sep)
RECURSIVE SplitOn(_, _)
SplitOn(s, sep) ==
    LET at == {k \in 1..Len(s) : s[k] = sep}
        first == CHOOSE k \in at : \A j \in at : k <= j
    IN  IF at = {} THEN <<s>>
        ELSE <<SubSeq(s, 1, first - 1)>> \o SplitOn(SubSeq(s, first + 1, Len(s)), sep)

\* int(text): None stands for ValueError
IntOf(s) ==
    LET t == Strip(s)
        signed == t # <<>> /\ t[1] \in {"-", "+"}
        body == IF signed THEN Tail(t) ELSE t
    IN  IF body = <<>> \/ \E k \in 1..Len(body) : ~IsDigit(body[k]) THEN None
        ELSE Some(IF t[1] = "-" THEN -DigitsValue(body) ELSE DigitsValue(body))

DaysInMonth(y, m) ==
    IF m = 2 THEN (IF y % 4 = 0 /\ (y % 100 # 0 \/ y % 400 = 0) THEN 29 ELSE 28)
    ELSE IF m \in {4, 6, 9, 11} THEN 30 ELSE 31

\* date(y, m, d): None stands for ValueError
DateOf(y, m, d) ==
    IF y = None \/ m = None \/ d = None THEN None
    ELSE IF y[1] \in 1..9999 /\ m[1] \in 1..12 /\ d[1] \in 1..DaysInMonth(y[1], m[1])
         THEN Some(Date(y[1], m[1], d[1])) ELSE None

\* the Decimal branch: None stands for InvalidOperation
ConvertDecimal(value) ==
    LET kept == SelectSeq(value, LAMBDA c : IsDigit(c) \/ c \in {".", ",", "-"})
        has(c) == \E k \in 1..Len(kept) : kept[k] = c
        cleaned == IF has(",") /\ ~has(".") THEN Replace(kept, ",", ".")
                   ELSE IF has(",") /\ has(".") THEN RemoveChars(kept, {","})
                   ELSE kept
    IN  DecimalOf(cleaned)

\* the date branch: None stands for ValueError; a text that is not three
\* parts is kept as it is
ConvertDate(value) ==
    LET cleaned == Replace(Replace(value, ".", "-"), "/", "-")
        parts_date == SplitOn(cleaned, "-")
    IN  IF Len(parts_date) = 3
        THEN IF Len(parts_date[1]) = 4
             THEN DateOf(IntOf(parts_date[1]), IntOf(parts_date[2]), IntOf(parts_date[3]))
             ELSE DateOf(IntOf(parts_date[3]), IntOf(parts_date[2]), IntOf(parts_date[1]))
        ELSE Some(Str(value))

\* the value as the field stores it
Stored(declared, new_value) ==
    IF declared \in {"optional_decimal", "optional_date", "optional_text"}
    THEN Some(new_value) ELSE new_value

Outcome(doc, raised) == [doc |-> doc, raised |-> raised]

\* _update_document_field: the document after the call, and whether an
\* exception left it
_update_document_field(doc, field_path, value) ==
    LET declared == DeclaredType(field_path.kind, field_path.field)
        runtime == RuntimeType(doc, field_path)
        new_value == CASE runtime = "Decimal" -> ConvertDecimal(value)
                       [] runtime = "date" -> ConvertDate(value)
                       [] runtime = "int" -> IntOf(value)
                       [] OTHER -> Some(IF declared \in {"text", "optional_text"}
                                        THEN value ELSE Str(value))
    IN  IF field_path.kind = "line_items" /\ field_path.index >= Len(doc.line_items)
        THEN Outcome(doc, TRUE)                      \* IndexError at obj[int(part)]
        ELSE IF field_path.kind \notin DOMAIN doc
        THEN Outcome(doc, FALSE)                     \* getattr gave None
        ELSE IF declared = "absent" \/ new_value = None
        THEN Outcome(doc, FALSE)                     \* ValueError, InvalidOperation
        ELSE Outcome(SetField(doc, field_path, Stored(declared, new_value[1])), FALSE)

\* the loop of update_annotations over request.bounding_boxes
RECURSIVE SyncBoxes(_, _)
SyncBoxes(doc, boxes) ==
    IF boxes = <<>> THEN Outcome(doc, FALSE)
    ELSE IF Head(boxes).field_path = None THEN SyncBoxes(doc, Tail(boxes))
    ELSE The({IF done.raised THEN done ELSE SyncBoxes(done.doc, Tail(boxes)) :
                 done \in {_update_document_field(doc, Head(boxes).field_path[1],
                                                  Head(boxes).text)}})

(***************************************************************************)
(* Results of DocumentPipeline.process                                     *)
(***************************************************************************)
EmptyDocument == CanonicalDocument(<<>>, Totals(Zero, <<>>, Zero, Zero, None))

ProcessingResult(status, confidence, data, issues, review_required, suggestions, message) ==
    [status |-> status, confidence |-> confidence, data |-> data,
     validation_issues |-> issues, review_required |-> review_required,
     suggestions |-> suggestions, message |-> message, bounding_boxes |-> <<>>]

NoProcessingResult ==
    ProcessingResult("none", "none", EmptyDocument, <<>>, FALSE, <<>>, <<>>)

_create_error_result(error) ==
    ProcessingResult("invalid", "none", EmptyDocument, <<error>>, FALSE, <<>>, error)

\* Step 6 of process: the result built from the last candidate and its validation
FinalResult(doc, validation_result) ==
    IF validation_result.is_valid
    THEN ProcessingResult("valid", "high", doc, <<>>, FALSE, <<>>,
                          Words(<<"document", "processed", "and", "validated", "successfully">>))
    ELSE ProcessingResult("uncertain", "low", doc, validation_result.errors, TRUE,
                          _build_suggestions(validation_result),
                          Words(<<"document", "processed", "but", "some", "values", "could",
                                  "not", "be", "verified">>))

ShouldRetry_OffByOne(validation_result, retries, limit) ==
    ~validation_result.is_valid /\ retries <= limit

\* the condition of the retry loop
ShouldRetry(validation_result, retries, limit) ==
    ~validation_result.is_valid /\ retries < limit

(***************************************************************************)
(* State                                                                   *)
(***************************************************************************)
VARIABLES
    pc,                 \* position of process: "start", "llm_extract", "llm_validate",
                        \* "retry" (awaiting revalidate), "done" (returned), "raised"
    max_retries,        \* settings.max_validation_retries
    extraction_result,  \* what _extract returned
    extracted_data,     \* extract_to_canonical: the parsed data awaiting the validation pass
    canonical_doc,      \* the current candidate
    validation_result,  \* result of the last _validate
    retry_count,
    result,             \* the ProcessingResult returned
    llm_calls,          \* calls made to the LLM client by extract_to_canonical
    revalidate_calls,   \* calls made to LLMExtractor.revalidate
    responses,          \* kind of the response to the first LLM call, then to each revalidate
    validations,        \* is_valid of every _validate run, in order
    prev_doc,           \* the candidate handed to the last revalidate call
    vdoc,               \* document handed to MathValidator.validate
    vres,               \* result of the last validate call on vdoc
    vpc,                \* "input" while the caller prepares vdoc, "validated" after the call
    edits               \* number of field assignments made to vdoc

pipeVars == <<pc, max_retries, extraction_result, extracted_data, canonical_doc,
              validation_result, retry_count, result, llm_calls, revalidate_calls,
              responses, validations, prev_doc>>
valVars == <<vdoc, vres, vpc, edits>>
vars == <<pc, max_retries, extraction_result, extracted_data, canonical_doc,
          validation_result, retry_count, result, llm_calls, revalidate_calls,
          responses, validations, prev_doc, vdoc, vres, vpc, edits>>

NoResult == ValidationResult(TRUE, <<>>, <<>>)

PipeIdle ==
    /\ pc = "idle"
    /\ max_retries = 3
    /\ extraction_result = ExtractionResult(NoText, "none")
    /\ extracted_data = EmptyObject
    /\ canonical_doc = EmptyDocument
    /\ validation_result = NoResult
    /\ retry_count = 0
    /\ result = NoProcessingResult
    /\ llm_calls = 0
    /\ revalidate_calls = 0
    /\ responses = <<>>
    /\ validations = <<>>
    /\ prev_doc = EmptyDocument

ValIdle ==
    /\ vdoc = EmptyDocument
    /\ vres = NoResult
    /\ vpc = "idle"
    /\ edits = 0

(***************************************************************************)
(* Spec: one call of DocumentPipeline.process.  The steps are the awaited  *)
(* calls: the extractor, the LLM calls of extract_to_canonical, and each   *)
(* revalidate; everything process does between two awaits is in the step.  *)
(***************************************************************************)
MaxRetryLimit == 3

\* amounts of the documents the LLM returns (a receipt of 10 x 1.00 at 21%,
\* from a Slovak supplier whose VAT id is one digit short)
JGood ==
    [JsonObject({"line_items", "totals"},
        <<JsonItem(Some(1), Some(D(10)), Some(D(1)), Some(D(21)), Some(Norm(210, 100)),
                   Some(Norm(1210, 100)))>>,
        JsonTotals(Some(D(10)), <<>>, Some(Norm(210, 100)), None, Some(Norm(1210, 100)),
                   Some(Norm(1210, 100)), None),
        FALSE)
     EXCEPT !.keys = {"supplier", "line_items", "totals"},
            !.supplier = JsonParty(Some(VatId("SK", 9)), Some("sk"))]
\* total_amount and amount_due misread
JBadTotals ==
    [JGood EXCEPT !.totals.total_amount = Some(D(15)), !.totals.amount_due = Some(D(5))]
\* lump-sum receipt with a misread line total and no line number
JBadLine ==
    JsonObject({"line_items", "totals"},
        <<JsonItem(None, Some(D(2)), Some(D(5)), None, None, Some(D(12)))>>,
        JsonTotals(Some(D(12)), <<>>, Some(D(1)), None, Some(D(13)), None, None),
        FALSE)
\* the same receipt with the position number printed on the invoice as line_number
JNumberedLine == [JBadLine EXCEPT !.line_items[1].line_number = Some(3)]
\* the receipt with a delivery charge of 1.00 on top: total 13.10
JShipping ==
    [JGood EXCEPT !.totals.shipping_amount = Some(D(1)),
                  !.totals.total_amount = Some(Norm(1310, 100)),
                  !.totals.amount_due = Some(Norm(1310, 100))]
\* {"totals": null}
JNullTotals == JsonObject({"totals"}, <<>>, NoJsonTotals, TRUE)

JsonObjects == {JGood, JBadTotals, JBadLine, JNumberedLine, JShipping, JNullTotals,
                EmptyObject}
LLMResponses == {Throws, NoContent, NotJson, Returns(JsonArray)}
                    \cup {Returns(j) : j \in JsonObjects}

\* "Total: 12.10"
TextTotal == Text(<<TextLine(FALSE, <<Literal(10, "", 0, 0)>>),
                    TextLine(TRUE, <<Literal(12, ".", 10, 2)>>)>>)
\* no line mentions a total
TextPlain == Text(<<TextLine(FALSE, <<Literal(15, ".", 0, 2)>>)>>)
Texts == {NoText, Text(<<>>), TextPlain, TextTotal}

\* the characters of a numeric literal of the text
LiteralText(m) ==
    Digits(m.whole)
    \o (IF m.sep = "" THEN <<>>
        ELSE <<m.sep>> \o Zeros(m.fraclen - Len(Digits(m.frac))) \o Digits(m.frac))

\* the OCR returns one box per word; the model keeps the boxes of the numbers
BoxesOf(text) ==
    SeqConcat([k \in 1..Len(text.lines) |->
                  [j \in 1..Len(text.lines[k].literals) |->
                      BoundingBox(LiteralText(text.lines[k].literals[j]))]])

Extractions ==
    {[ExtractionResult(t, sd) EXCEPT !.bounding_boxes = BoxesOf(t)] :
        t \in Texts, sd \in {"none", "empty", "data"}}

Init ==
    /\ pc = "start"
    /\ max_retries \in 1..MaxRetryLimit
    /\ extraction_result = ExtractionResult(NoText, "none")
    /\ extracted_data = EmptyObject
    /\ canonical_doc = EmptyDocument
    /\ validation_result = NoResult
    /\ retry_count = 0
    /\ result = NoProcessingResult
    /\ llm_calls = 0
    /\ revalidate_calls = 0
    /\ responses = <<>>
    /\ validations = <<>>
    /\ prev_doc = EmptyDocument
    /\ ValIdle

\* Step 5/6 of process: loop again, or build the result and return
LoopOrReturn(doc, vr, retries) ==
    IF ShouldRetry(vr, retries, max_retries)
    THEN pc' = "retry" /\ UNCHANGED result
    ELSE /\ pc' = "done"
         /\ result' = [FinalResult(doc, vr) EXCEPT !.bounding_boxes =
                           _link_bounding_boxes_to_fields(extraction_result.bounding_boxes, doc)]

\* extract_to_canonical returns the converted data; process reconciles and validates
NormalizeAndValidate(data) ==
    IF ~DocumentShaped(data)
    THEN \* _to_canonical_document raises AttributeError; nothing catches it
         /\ pc' = "raised"
         /\ UNCHANGED <<canonical_doc, validation_result, retry_count, result, validations>>
    ELSE \E doc \in {_align_totals_with_ocr(extraction_result.text,
                           _to_canonical_document(data, extraction_result.text))} :
         \E vr \in {_validate(doc)} :
             /\ canonical_doc' = doc
             /\ validation_result' = vr
             /\ validations' = Append(validations, vr.is_valid)
             /\ retry_count' = 0
             /\ LoopOrReturn(doc, vr, 0)

\* Step 2: extraction_result = await self._extract(...)
Extract ==
    /\ pc = "start"
    /\ \E er \in Extractions :
        /\ extraction_result' = er
        /\ IF ~has_content(er)
           THEN /\ pc' = "done"
                /\ result' = _create_error_result(
                       Words(<<"failed", "to", "extract", "content", "from", "document">>))
           ELSE /\ pc' = "llm_extract"
                /\ UNCHANGED result
    /\ UNCHANGED <<max_retries, extracted_data, canonical_doc, validation_result, retry_count,
                   llm_calls, revalidate_calls, responses, validations, prev_doc>>
    /\ UNCHANGED valVars

\* Step 3: the first LLM call of extract_to_canonical
LLMExtract ==
    /\ pc = "llm_extract"
    /\ \E resp \in LLMResponses :
        LET data == IF resp.kind = "json" THEN resp.data ELSE EmptyObject IN
        /\ responses' = Append(responses, resp.kind)
        /\ llm_calls' = llm_calls + 1
        /\ IF DataTruthy(data) /\ ~_extraction_looks_valid(data)
           THEN /\ pc' = "llm_validate"
                /\ extracted_data' = data
                /\ UNCHANGED <<canonical_doc, validation_result, retry_count, result,
                               validations>>
           ELSE /\ extracted_data' = data
                /\ NormalizeAndValidate(data)
    /\ UNCHANGED <<max_retries, extraction_result, revalidate_calls, prev_doc>>
    /\ UNCHANGED valVars

\* _validate_extraction: the second LLM call of extract_to_canonical
LLMValidate ==
    /\ pc = "llm_validate"
    /\ \E resp \in LLMResponses :
        LET data == IF resp.kind = "json" THEN resp.data ELSE extracted_data IN
        /\ llm_calls' = llm_calls + 1
        /\ extracted_data' = data
        /\ NormalizeAndValidate(data)
    /\ UNCHANGED <<max_retries, extraction_result, revalidate_calls, responses, prev_doc>>
    /\ UNCHANGED valVars

\* LLMExtractor.revalidate: the candidate it returns for a response
revalidate(doc, resp, ocr_text) ==
    IF resp.kind \in {"throw", "garbage"} THEN doc
    ELSE _to_canonical_document(IF resp.kind = "json" THEN resp.data ELSE EmptyObject, ocr_text)

\* revalidate raises: the parsed data is not an object of the expected shape
RevalidateRaises(resp) == resp.kind = "json" /\ ~DocumentShaped(resp.data)

\* one iteration of the retry loop
Revalidate ==
    /\ pc = "retry"
    /\ \E resp \in LLMResponses :
        /\ responses' = Append(responses, resp.kind)
        /\ revalidate_calls' = revalidate_calls + 1
        /\ prev_doc' = canonical_doc
        /\ IF RevalidateRaises(resp)
           THEN /\ pc' = "raised"
                /\ UNCHANGED <<canonical_doc, validation_result, retry_count, result,
                               validations>>
           ELSE \E doc \in {revalidate(canonical_doc, resp, extraction_result.text)} :
                \E vr \in {_validate(doc)} :
                    /\ canonical_doc' = doc
                    /\ validation_result' = vr
                    /\ validations' = Append(validations, vr.is_valid)
                    /\ retry_count' = retry_count + 1
                    /\ LoopOrReturn(doc, vr, retry_count + 1)
    /\ UNCHANGED <<max_retries, extraction_result, extracted_data, llm_calls>>
    /\ UNCHANGED valVars

Next ==
    \/ Extract
    \/ LLMExtract
    \/ LLMValidate
    \/ Revalidate

Spec == Init /\ [][Next]_vars

(***************************************************************************)
(* Properties of DocumentPipeline.process (checked under Spec)             *)
(***************************************************************************)
Returned == pc = "done"
\* the extractor returned no text (or an empty one) and no structured data (or an empty mapping)
ExtractionFailed ==
    /\ pc # "start"
    /\ ~extraction_result.text.present \/ extraction_result.text.lines = <<>>
    /\ extraction_result.structured_data \in {"none", "empty"}
NeverValid == \A k \in 1..Len(validations) : ~validations[k]

\* C1: revalidate is called only while the last validation is invalid and
\* fewer than max_retries calls were made; so there are never more than
\* max_retries calls, the loop stops at the first valid result, and when
\* every validation fails process returns 'uncertain' after exactly
\* max_retries calls.
C1_RetryLoopBounded ==
    /\ [](/\ revalidate_calls <= max_retries
          /\ pc # "raised" => revalidate_calls = retry_count
          /\ \A k \in 1..(Len(validations) - 1) : ~validations[k]
          /\ (Returned /\ validations # <<>> /\ NeverValid)
                => (revalidate_calls = max_retries /\ result.status = "uncertain")
          /\ (Returned /\ validations # <<>> /\ ~NeverValid) => result.status = "valid")
    /\ [][revalidate_calls' # revalidate_calls
            => (/\ revalidate_calls' = revalidate_calls + 1
                /\ ~validation_result.is_valid
                /\ revalidate_calls < max_retries)]_vars

\* every validation failed and process returned after max_retries > 1 calls
C1_Witness ==
    /\ Returned /\ NeverValid /\ max_retries > 1
    /\ revalidate_calls = max_retries /\ result.status = "uncertain"

\* C2: confidence is 'high' only for a result whose first validation passed
\* (zero retries), 'low' for every uncertain result and 'none' for every
\* extraction-failure result.
C2_HighOnlyWithoutRetry ==
    Returned =>
        /\ result.confidence = "high" => (revalidate_calls = 0 /\ validations = <<TRUE>>)
        /\ result.status = "uncertain" => result.confidence = "low"
        /\ result.status = "invalid" => result.confidence = "none"

\* C3: when extraction yields neither text nor structured data, process
\* returns status 'invalid' with exactly one error message, no suggestions,
\* review_required = false, and no LLM call of either kind is ever made.
C3_ExtractionFailureIsFinal ==
    ExtractionFailed =>
        /\ Returned
        /\ result.status = "invalid"
        /\ Len(result.validation_issues) = 1
        /\ result.message = result.validation_issues[1]
        /\ result.suggestions = <<>>
        /\ ~result.review_required
        /\ llm_calls = 0 /\ revalidate_calls = 0

\* the extractor returned an empty text and an empty mapping
C3_Witness ==
    /\ Returned /\ ExtractionFailed
    /\ extraction_result.text.present /\ extraction_result.structured_data = "empty"
    /\ result.status = "invalid"

\* C4: every 'uncertain' result has review_required = true and a non-empty
\* suggestion list holding exactly one suggestion per error of the last
\* validation, in order, with that error as its reason.
C4_UncertainHasSuggestions ==
    (Returned /\ result.status = "uncertain") =>
        /\ result.review_required
        /\ result.suggestions # <<>>
        /\ Len(result.suggestions) = Len(validation_result.errors)
        /\ \A k \in 1..Len(validation_result.errors) :
               result.suggestions[k].reason = validation_result.errors[k]

\* an uncertain result whose last validation reported two errors
C4_Witness ==
    /\ Returned /\ result.status = "uncertain"
    /\ Len(validation_result.errors) = 2 /\ Len(result.suggestions) = 2

LastResponse == responses[Len(responses)]
\* the LLM call threw, or returned nothing, text that is not JSON, or JSON
\* that is not a document-shaped object
FailedResponseKinds == {"throw", "empty", "garbage"}

\* C5: an LLM failure during a retry (exception, unparseable text, empty
\* response, JSON that is not a document-shaped object) leaves the candidate
\* as it was before the call and no exception reaches the caller.
C5_FailedRetryKeepsCandidate ==
    [][(revalidate_calls' = revalidate_calls + 1
          /\ \E resp \in LLMResponses :
                /\ responses' = Append(responses, resp.kind)
                /\ (resp.kind \in FailedResponseKinds \/ ~DocumentShaped(resp.data)))
        => (canonical_doc' = canonical_doc /\ pc' # "raised")]_vars

\* C6: a failed initial LLM extraction (exception or malformed JSON) is
\* treated as {} and the pipeline goes on; the empty document fails
\* validation, so at least one revalidate call is made before process returns
\* and the result is not 'valid' without a retry.
C6_FailedExtractionEntersRetry ==
    (/\ responses # <<>>
     /\ responses[1] \in {"throw", "garbage"}
     /\ pc \in {"done", "raised"})
    => (revalidate_calls >= 1)

(***************************************************************************)
(* ValSpec: a caller builds a document by assigning fields of a fixture,   *)
(* as the validator tests do, and calls MathValidator.validate on it.      *)
(***************************************************************************)
MaxEdits == 2

BaseDocs == {FixtureDoc, SampleDoc, LumpSumDoc}
AmountValues == {Zero, D(50), D(999), D(1210), Norm(151251, 100), Norm(156250, 100), D(9999)}
OptAmountValues == {None, Some(D(50)), Some(D(1210))}
LineAmountValues == {Zero, D(100), D(1210), D(9999)}
RateValues == {None, Some(D(21)), Some(D(50))}
BreakdownTaxValues == {D(8), D(50)}
\* no party data; a German supplier with a short VAT id; an id with an unknown
\* prefix from a country without a rate table; a lower-case country code
Parties == {NoParty, Party(Some(VatId("DE", 5)), Some("DE")),
            Party(Some(VatId("XX", 3)), Some("US")), Party(None, Some("sk"))}

ValInit ==
    /\ vdoc \in BaseDocs
    /\ vres = NoResult
    /\ vpc = "input"
    /\ edits = 0
    /\ PipeIdle

\* doc.totals.<field> = value
SetTotalsField ==
    /\ vpc = "input" /\ edits < MaxEdits
    /\ \E f \in {"subtotal", "total_tax", "total_amount"}, v \in AmountValues :
           vdoc' = [vdoc EXCEPT !.totals[f] = v]
    /\ edits' = edits + 1
    /\ UNCHANGED <<vres, vpc>>
    /\ UNCHANGED pipeVars

SetTotalsOptional ==
    /\ vpc = "input" /\ edits < MaxEdits
    /\ \E f \in {"amount_due", "shipping_amount", "prepaid_amount", "rounding_amount"},
          v \in OptAmountValues :
           vdoc' = [vdoc EXCEPT !.totals[f] = v]
    /\ edits' = edits + 1
    /\ UNCHANGED <<vres, vpc>>
    /\ UNCHANGED pipeVars

\* doc.totals.tax_breakdown = []
ClearTaxBreakdown ==
    /\ vpc = "input" /\ edits < MaxEdits
    /\ vdoc.totals.tax_breakdown # <<>>
    /\ vdoc' = [vdoc EXCEPT !.totals.tax_breakdown = <<>>]
    /\ edits' = edits + 1
    /\ UNCHANGED <<vres, vpc>>
    /\ UNCHANGED pipeVars

\* doc.line_items[i].<field> = value
SetLineField ==
    /\ vpc = "input" /\ edits < MaxEdits
    /\ \E i \in 1..Len(vdoc.line_items), f \in {"line_total", "tax_amount"},
          v \in LineAmountValues :
           vdoc' = [vdoc EXCEPT !.line_items[i][f] = v]
    /\ edits' = edits + 1
    /\ UNCHANGED <<vres, vpc>>
    /\ UNCHANGED pipeVars

SetLineOptional ==
    /\ vpc = "input" /\ edits < MaxEdits
    /\ \E i \in 1..Len(vdoc.line_items),
          f \in {"tax_rate", "discount_percent", "discount_amount"}, v \in RateValues :
           vdoc' = [vdoc EXCEPT !.line_items[i][f] = v]
    /\ edits' = edits + 1
    /\ UNCHANGED <<vres, vpc>>
    /\ UNCHANGED pipeVars

\* doc.line_items = []
ClearLineItems ==
    /\ vpc = "input" /\ edits < MaxEdits
    /\ vdoc.line_items # <<>>
    /\ vdoc' = [vdoc EXCEPT !.line_items = <<>>]
    /\ edits' = edits + 1
    /\ UNCHANGED <<vres, vpc>>
    /\ UNCHANGED pipeVars

\* test_empty_document_passes: no line items and the three totals set to 0
EmptyTheDocument ==
    /\ vpc = "input" /\ edits < MaxEdits
    /\ vdoc.line_items # <<>>
    /\ vdoc' = [vdoc EXCEPT !.line_items = <<>>,
                            !.totals.subtotal = Zero,
                            !.totals.total_tax = Zero,
                            !.totals.total_amount = Zero]
    /\ edits' = edits + 1
    /\ UNCHANGED <<vres, vpc>>
    /\ UNCHANGED pipeVars

\* doc.supplier = party, doc.customer = party
SetParty ==
    /\ vpc = "input" /\ edits < MaxEdits
    /\ \E who \in {"supplier", "customer"}, party \in Parties :
           /\ vdoc[who] # party
           /\ vdoc' = [vdoc EXCEPT ![who] = party]
    /\ edits' = edits + 1
    /\ UNCHANGED <<vres, vpc>>
    /\ UNCHANGED pipeVars

\* result = pipeline._validate(doc): the math and the tax validator, merged
RunPipelineValidate ==
    /\ vpc = "input"
    /\ vres' = _validate(vdoc)
    /\ vpc' = "validated_all"
    /\ UNCHANGED <<vdoc, edits>>
    /\ UNCHANGED pipeVars

\* doc.totals.tax_breakdown[i].tax_amount = value
SetBreakdownTax ==
    /\ vpc = "input" /\ edits < MaxEdits
    /\ \E i \in 1..Len(vdoc.totals.tax_breakdown), v \in BreakdownTaxValues :
           /\ vdoc.totals.tax_breakdown[i].tax_amount # v
           /\ vdoc' = [vdoc EXCEPT !.totals.tax_breakdown[i].tax_amount = v]
    /\ edits' = edits + 1
    /\ UNCHANGED <<vres, vpc>>
    /\ UNCHANGED pipeVars

\* result = validator.validate(doc)
RunValidate ==
    /\ vpc = "input"
    /\ vres' = MathValidator_validate(vdoc)
    /\ vpc' = "validated"
    /\ UNCHANGED <<vdoc, edits>>
    /\ UNCHANGED pipeVars

ValNext ==
    \/ SetTotalsField
    \/ SetTotalsOptional
    \/ ClearTaxBreakdown
    \/ SetLineField
    \/ SetLineOptional
    \/ ClearLineItems
    \/ EmptyTheDocument
    \/ SetParty
    \/ SetBreakdownTax
    \/ RunPipelineValidate
    \/ RunValidate

ValSpec == ValInit /\ [][ValNext]_vars

(***************************************************************************)
(* Properties of MathValidator.validate (checked under ValSpec)            *)
(***************************************************************************)
Validated == vpc = "validated"
HasErrorMentioning(res, phrase) == \E k \in 1..Len(res.errors) : MsgHas(res.errors[k], phrase)

\* a and b differ by more than 0.02 and by more than 1% of the larger magnitude
OutsideToleranceBand(a, b) ==
    LET diff == RAbs(RSub(a, b))
        big  == RMax(RAbs(a), RAbs(b))
    IN  /\ RLt(Norm(2, 100), diff)
        /\ RLt(RMul(big, Norm(1, 100)), diff)

\* the premise of C7: the three exact equalities
ExactlyConsistent(doc) ==
    /\ RAdd(doc.totals.subtotal, doc.totals.total_tax) = doc.totals.total_amount
    /\ doc.totals.amount_due = Some(doc.totals.total_amount)
    /\ \A i \in 1..Len(doc.line_items) :
           RAdd(RMul(doc.line_items[i].quantity, doc.line_items[i].unit_price),
                doc.line_items[i].tax_amount) = doc.line_items[i].line_total

NoShippingNoRounding(doc) ==
    ~Truthy(doc.totals.shipping_amount) /\ ~Truthy(doc.totals.rounding_amount)

\* nothing in the document that only the lump-sum checks turn into errors
PlainLumpSum(doc) ==
    /\ doc.totals.tax_breakdown = <<>>
    /\ \A i \in 1..Len(doc.line_items) :
           /\ doc.line_items[i].tax_amount = Zero
           /\ ~Truthy(doc.line_items[i].discount_percent)
           /\ ~Truthy(doc.line_items[i].discount_amount)

\* C7 as stated: every document with subtotal + total_tax = total_amount,
\* amount_due = total_amount and quantity x unit_price + tax_amount = line_total
\* on every line validates with zero errors, whatever its other fields.
C7_ConsistentAlwaysValid ==
    (Validated /\ ExactlyConsistent(vdoc)) => (vres.is_valid /\ vres.errors = <<>>)

\* C7 amended: such a document validates with zero errors when shipping and
\* rounding are absent or zero and, if it is detected as lump-sum style, it
\* has no tax breakdown and no line carries a tax amount or a discount.
C7_ConsistentValid ==
    (/\ Validated
     /\ ExactlyConsistent(vdoc)
     /\ NoShippingNoRounding(vdoc)
     /\ (_is_us_style_invoice(vdoc) => PlainLumpSum(vdoc)))
    => (vres.is_valid /\ vres.errors = <<>>)

\* a document detected as inclusive style, with a line that has no tax rate,
\* satisfies the premise and has been validated
C7_Witness ==
    /\ Validated /\ ExactlyConsistent(vdoc) /\ NoShippingNoRounding(vdoc)
    /\ ~_is_us_style_invoice(vdoc)
    /\ vdoc.line_items # <<>>
    /\ \E i \in 1..Len(vdoc.line_items) : vdoc.line_items[i].tax_rate = None
    /\ vres.is_valid

\* C8 as stated: total_amount outside the tolerance band of
\* subtotal + total_tax gives an invalid result with an error mentioning "total".
C8_TotalPerturbedDetected ==
    (/\ Validated
     /\ OutsideToleranceBand(vdoc.totals.total_amount,
                             RAdd(vdoc.totals.subtotal, vdoc.totals.total_tax)))
    => (~vres.is_valid /\ HasErrorMentioning(vres, <<"total">>))

\* what the grand-total check compares total_amount with
SubtotalTaxShippingRounding(doc) ==
    RSum(<<doc.totals.subtotal, doc.totals.total_tax>>
         \o doc.totals.shipping_amount \o doc.totals.rounding_amount)

\* C8 amended: total_amount outside the tolerance band of
\* subtotal + total_tax + shipping + rounding gives an invalid result with an
\* error mentioning "total".
C8_GrandTotalDetected ==
    (/\ Validated
     /\ OutsideToleranceBand(vdoc.totals.total_amount, SubtotalTaxShippingRounding(vdoc)))
    => (~vres.is_valid /\ HasErrorMentioning(vres, <<"total">>))

\* a document with shipping whose total is off has been validated
C8_Witness ==
    /\ Validated
    /\ Truthy(vdoc.totals.shipping_amount)
    /\ OutsideToleranceBand(vdoc.totals.total_amount, SubtotalTaxShippingRounding(vdoc))
    /\ ~vres.is_valid

FixtureSubtotal999 == [FixtureDoc EXCEPT !.totals.subtotal = D(999)]
SampleSubtotal999 == [SampleDoc EXCEPT !.totals.subtotal = D(999)]

\* C9 as stated: forcing totals.subtotal to 999.00 in the sample document or
\* in the test fixture gives an invalid result with an error mentioning "subtotal".
C9_WrongSubtotalDetected ==
    (Validated /\ vdoc \in {SampleSubtotal999, FixtureSubtotal999})
    => (~vres.is_valid /\ HasErrorMentioning(vres, <<"subtotal">>))

\* C9 amended: forcing totals.subtotal to 999.00 in the test fixture
\* (subtotal 1250) gives an invalid result with an error mentioning
\* "subtotal"; in the one-line sample (subtotal 1000) it stays within the 1%
\* tolerance and the document still validates.
C9_FixtureSubtotalDetected ==
    /\ (Validated /\ vdoc = FixtureSubtotal999)
       => (~vres.is_valid /\ HasErrorMentioning(vres, <<"subtotal">>))
    /\ (Validated /\ vdoc = SampleSubtotal999) => vres.is_valid

\* the fixture with subtotal 999.00 has been validated and rejected
C9_Witness == Validated /\ vdoc = FixtureSubtotal999 /\ ~vres.is_valid

\* line_total of the item is close to neither quantity x unit_price nor
\* quantity x unit_price plus tax (the item's tax_amount, or tax at its tax_rate)
LineMatchesNothing(item) ==
    LET net == RMul(item.quantity, item.unit_price) IN
    /\ OutsideToleranceBand(item.line_total, net)
    /\ OutsideToleranceBand(item.line_total, RAdd(net, item.tax_amount))
    /\ item.tax_rate # None =>
           OutsideToleranceBand(item.line_total,
                                RAdd(net, RMul(net, RDiv(item.tax_rate[1], D(100)))))

NamesLine(msg, n) ==
    \E k \in 1..(Len(msg) - 1) : msg[k].w = "line" /\ msg[k + 1] = Num(D(n))

\* C10: a line item whose line_total matches neither quantity x unit_price
\* nor quantity x unit_price plus tax makes the result invalid, with an error
\* naming that line.
C10_WrongLineTotalDetected ==
    Validated =>
        \A i \in 1..Len(vdoc.line_items) :
            LineMatchesNothing(vdoc.line_items[i]) =>
                /\ ~vres.is_valid
                /\ \E k \in 1..Len(vres.errors) :
                       NamesLine(vres.errors[k], vdoc.line_items[i].line_number)

\* the document has no line items and subtotal, total_tax, total_amount are 0
EmptyZeroDocument(doc) ==
    /\ doc.line_items = <<>>
    /\ doc.totals.subtotal = Zero
    /\ doc.totals.total_tax = Zero
    /\ doc.totals.total_amount = Zero

\* C11: a document with no line items and subtotal, total_tax, total_amount
\* all zero passes validation, whatever its remaining totals fields hold.
C11_EmptyDocumentPasses ==
    (Validated /\ EmptyZeroDocument(vdoc)) => vres.is_valid

\* |a - b| <= 0.02, or |a - b| <= 1% of max(|a|, |b|) with that maximum positive
WithinToleranceBand(a, b) ==
    LET diff == RAbs(RSub(a, b))
        big  == RMax(RAbs(a), RAbs(b))
    IN  \/ RLe(diff, Norm(2, 100))
        \/ RLt(Zero, big) /\ RLe(RMul(diff, D(100)), big)

\* the pairs of amounts validate compares with _is_close in the grand-total check
ComparedPairs(doc) ==
    {<<doc.totals.total_amount, ExpectedTotal(doc)>>}
    \cup (IF doc.totals.amount_due # None
          THEN {<<doc.totals.amount_due[1], ExpectedDue(doc)>>} ELSE {})
    \cup {<<doc.line_items[i].line_total, ExpectedGross(doc.line_items[i])>> :
              i \in 1..Len(doc.line_items)}

FixtureTotalOffBy001 == [FixtureDoc EXCEPT !.totals.total_amount = Norm(151251, 100)]
FixtureTotalOffBy50 == [FixtureDoc EXCEPT !.totals.total_amount = Norm(156250, 100)]

\* C12: _is_close(a, b) is true iff |a - b| <= 0.02 or |a - b| / max(|a|, |b|)
\* <= 1%; so a total off by 0.01 near 1500 still validates, and a total off by
\* 50 near 1500 fails validation.
C12_IsCloseToleranceBand ==
    Validated =>
        /\ \A pr \in ComparedPairs(vdoc) :
               _is_close(pr[1], pr[2]) <=> WithinToleranceBand(pr[1], pr[2])
        /\ vdoc = FixtureTotalOffBy001 => vres.is_valid
        /\ vdoc = FixtureTotalOffBy50 => ~vres.is_valid

\* a validated document whose total is off by more than 0.02 but within 1%,
\* accepted by the relative test alone
C12_Witness ==
    /\ Validated
    /\ ~RLe(RAbs(RSub(vdoc.totals.total_amount, ExpectedTotal(vdoc))), Norm(2, 100))
    /\ _is_close(vdoc.totals.total_amount, ExpectedTotal(vdoc))
    /\ ~HasErrorMentioning(vres, <<"grand", "total">>)

ValidatedAll == vpc = "validated_all"

\* C13: every validation result (MathValidator.validate, TaxValidator.validate,
\* their merge in the pipeline) is valid iff its error list is empty; warnings
\* never make a result invalid, and TaxValidator yields warnings only.
C13_ValidIffNoErrors ==
    /\ Validated => (vres.is_valid <=> vres.errors = <<>>)
    /\ ValidatedAll =>
          LET math == MathValidator_validate(vdoc)
              tax  == TaxValidator_validate(vdoc)
          IN  /\ vres.is_valid <=> vres.errors = <<>>
              /\ math.is_valid <=> math.errors = <<>>
              /\ tax.is_valid /\ tax.errors = <<>>
              /\ vres.is_valid = math.is_valid
              /\ vres.errors = math.errors
              /\ vres.warnings = math.warnings \o tax.warnings

\* a merged result that is valid although both validators warned
C13_Witness ==
    /\ ValidatedAll
    /\ vres.is_valid
    /\ MathValidator_validate(vdoc).warnings # <<>>
    /\ Len(TaxValidator_validate(vdoc).warnings) >= 2

(***************************************************************************)
(* RecSpec: a caller holds a document and the text of its source, and      *)
(* calls DocumentPipeline._align_totals_with_ocr on them, twice in a row.  *)
(* extraction_result holds the text, vdoc the document, prev_doc the       *)
(* document as it was before the last call.                                *)
(***************************************************************************)
\* one item at 8.70 with the decimal point of the amounts misplaced
MisplacedDoc ==
    CanonicalDocument(
        <<LineItem(1, D(1), Norm(87, 10), None, Zero, Norm(8699, 1000))>>,
        Totals(Norm(8699, 1000), <<>>, Zero, Norm(8699, 1000), Some(Norm(8699, 1000))))

\* two items, 1 x 5000 and 1 x 3000
TwoItemDoc ==
    CanonicalDocument(
        <<LineItem(1, D(1), D(5000), None, Zero, D(5000)),
          LineItem(2, D(1), D(3000), None, Zero, D(3000))>>,
        Totals(D(8000), <<>>, Zero, D(8000), Some(D(8000))))

RecBaseDocs == {MisplacedDoc, TwoItemDoc, SampleDoc, FixtureDoc, EmptyDocument}

\* the base documents, also with another total_amount or a last item without unit price
RecDocs ==
    RecBaseDocs
    \cup {[d EXCEPT !.totals.total_amount = v] :
              d \in RecBaseDocs, v \in {Norm(8699, 100), D(1210), Norm(500101, 100)}}
    \cup {[d EXCEPT !.line_items[Len(d.line_items)].unit_price = Zero] :
              d \in RecBaseDocs \ {EmptyDocument}}

\* "Total: 86.99"
Text8699 == Text(<<TextLine(TRUE, <<Literal(86, ".", 99, 2)>>)>>)
\* "Total: 86,99"
Text8699Comma == Text(<<TextLine(TRUE, <<Literal(86, ",", 99, 2)>>)>>)
\* "Total: 5001.00"
Text5001 == Text(<<TextLine(TRUE, <<Literal(5001, ".", 0, 2)>>)>>)
\* "Subtotal 1000.00" / "TOTAL" / "1210.00" / "Paid 2000.00"
TextStacked ==
    Text(<<TextLine(TRUE, <<Literal(1000, ".", 0, 2)>>), TextLine(TRUE, <<>>),
           TextLine(FALSE, <<Literal(1210, ".", 0, 2)>>),
           TextLine(FALSE, <<Literal(2000, ".", 0, 2)>>)>>)
RecTexts == {NoText, TextPlain, Text8699, Text8699Comma, Text5001, TextStacked}

RecInit ==
    /\ vdoc \in RecDocs
    /\ prev_doc = EmptyDocument
    /\ extraction_result \in {ExtractionResult(t, "none") : t \in RecTexts}
    /\ vpc = "rec_input"
    /\ vres = NoResult
    /\ edits = 0
    /\ pc = "start"
    /\ max_retries = 1
    /\ extracted_data = EmptyObject
    /\ canonical_doc = EmptyDocument
    /\ validation_result = NoResult
    /\ retry_count = 0
    /\ result = NoProcessingResult
    /\ llm_calls = 0
    /\ revalidate_calls = 0
    /\ responses = <<>>
    /\ validations = <<>>

\* self._align_totals_with_ocr(text, doc)
Reconcile ==
    /\ vpc = "rec_input"
    /\ prev_doc' = vdoc
    /\ vdoc' = _align_totals_with_ocr(extraction_result.text, vdoc)
    /\ vpc' = "reconciled"
    /\ UNCHANGED <<vres, edits, pc, max_retries, extraction_result, extracted_data,
                   canonical_doc, validation_result, retry_count, result, llm_calls,
                   revalidate_calls, responses, validations>>

\* the same call once more, on the document the first call left
ReconcileAgain ==
    /\ vpc = "reconciled"
    /\ prev_doc' = vdoc
    /\ vdoc' = _align_totals_with_ocr(extraction_result.text, vdoc)
    /\ vpc' = "reconciled_twice"
    /\ UNCHANGED <<vres, edits, pc, max_retries, extraction_result, extracted_data,
                   canonical_doc, validation_result, retry_count, result, llm_calls,
                   revalidate_calls, responses, validations>>

RecNext ==
    \/ Reconcile
    \/ ReconcileAgain

RecSpec == RecInit /\ [][RecNext]_vars

(***************************************************************************)
(* Properties of reconciliation (checked under RecSpec)                    *)
(***************************************************************************)
Reconciled == vpc = "reconciled"

\* the call changed line_total of the last line item
LastItemAdjusted ==
    /\ vdoc.line_items # <<>>
    /\ vdoc.line_items[Len(vdoc.line_items)].line_total
          # prev_doc.line_items[Len(prev_doc.line_items)].line_total

\* C14: with the text "Total: 86.99" a document whose total_amount is 8.699
\* gets total_amount 86.99; and whenever the call adjusts the last line item
\* and its unit_price is not zero, afterwards quantity x unit_price is within
\* the tolerance band of the item's new line_total.
C14_ReconcileKeepsLineConsistent ==
    Reconciled =>
        /\ (/\ extraction_result.text = Text8699
            /\ prev_doc.totals.total_amount = Norm(8699, 1000))
           => vdoc.totals.total_amount = Norm(8699, 100)
        /\ LastItemAdjusted =>
              LET item == vdoc.line_items[Len(vdoc.line_items)] IN
              item.unit_price # Zero =>
                  WithinToleranceBand(RMul(item.quantity, item.unit_price), item.line_total)

\* C15: a second call with the same text on the document the first call left
\* changes no field of the document.
C15_ReconcileIdempotent ==
    vpc = "reconciled_twice" => vdoc = prev_doc

\* the first call moved the totals and the last line item; the second has run
C15_Witness ==
    /\ vpc = "reconciled_twice"
    /\ vdoc = prev_doc
    /\ vdoc.line_items # <<>>
    /\ vdoc.totals.total_amount = Norm(8699, 100)
    /\ vdoc.line_items[1].quantity = Norm(99989, 10000)

(***************************************************************************)
(* The field linker on its own: boxes and a document are given, then       *)
(* _link_bounding_boxes_to_fields runs once.                               *)
(***************************************************************************)
MaxBoxes == 3

T1000 == <<"1", "0", "0", "0", ".", "0", "0">>
T210Comma == <<"2", "1", "0", ",", "0", "0">>
T1210Spaced == <<"1", " ", "2", "1", "0", ".", "0", "0">>
T1210 == <<"1", "2", "1", "0">>
TDollar == <<"$", "1", ",", "2", "1", "0", ".", "0", "0">>
TWord == <<"T", "o", "t", "a", "l">>
TDateIso == <<"2", "0", "2", "4", "-", "0", "1", "-", "1", "5">>
TDateDots == <<"1", "5", ".", "0", "1", ".", "2", "0", "2", "4">>
\* the first word of the fixture's supplier name
TAcme == <<"A", "c", "m", "e">>
LinkTexts == {T1000, T210Comma, T1210Spaced, T1210, TDollar, TWord, TDateIso, TDateDots, TAcme}

\* totals 210.00 / 1000.00 / 1210.00 and no other numeric field
TotalsOnlyDoc == CanonicalDocument(<<>>, Totals(D(1000), <<>>, D(210), D(1210), None))
\* the same with amount_due equal to total_amount
SameDueDoc == CanonicalDocument(<<>>, Totals(D(1000), <<>>, D(210), D(1210), Some(D(1210))))
\* the same with one line whose line_total equals total_amount
LineEqualsTotalDoc ==
    CanonicalDocument(<<LineItem(1, D(1), D(1000), Some(D(21)), D(210), D(1210))>>,
                      Totals(D(1000), <<>>, D(210), D(1210), None))
LinkDocs == {TotalsOnlyDoc, SameDueDoc, LineEqualsTotalDoc, FixtureDoc}

RECURSIVE BoxSeqs(_)
BoxSeqs(n) ==
    IF n = 0 THEN {<<>>}
    ELSE BoxSeqs(n - 1)
         \cup {Append(boxes, BoundingBox(t)) :
                  boxes \in {b \in BoxSeqs(n - 1) : Len(b) = n - 1}, t \in LinkTexts}

LinkInit ==
    /\ pc = "link_input"
    /\ max_retries = 1
    /\ extraction_result \in
           {[ExtractionResult(NoText, "none") EXCEPT !.bounding_boxes = boxes] :
               boxes \in BoxSeqs(MaxBoxes)}
    /\ extracted_data = EmptyObject
    /\ canonical_doc \in LinkDocs
    /\ validation_result = NoResult
    /\ retry_count = 0
    /\ result = NoProcessingResult
    /\ llm_calls = 0
    /\ revalidate_calls = 0
    /\ responses = <<>>
    /\ validations = <<>>
    /\ prev_doc = EmptyDocument
    /\ ValIdle

\* step 6 of process, the linking only
Link ==
    /\ pc = "link_input"
    /\ pc' = "linked"
    /\ result' = [result EXCEPT !.data = canonical_doc, !.bounding_boxes =
                     _link_bounding_boxes_to_fields(extraction_result.bounding_boxes,
                                                    canonical_doc)]
    /\ UNCHANGED <<max_retries, extraction_result, extracted_data, canonical_doc,
                   validation_result, retry_count, llm_calls, revalidate_calls,
                   responses, validations, prev_doc>>
    /\ UNCHANGED valVars

\* update_annotations with exactly the boxes the linker produced for the
\* stored result
ResubmitBoxes ==
    /\ pc = "linked"
    /\ \E done \in {SyncBoxes(result.data, result.bounding_boxes)} :
          /\ pc' = IF done.raised THEN "annotate_raised" ELSE "resubmitted"
          /\ result' = [result EXCEPT !.data = done.doc]
          /\ prev_doc' = result.data
    /\ UNCHANGED <<max_retries, extraction_result, extracted_data, canonical_doc,
                   validation_result, retry_count, llm_calls, revalidate_calls,
                   responses, validations>>
    /\ UNCHANGED valVars

LinkNext ==
    \/ Link
    \/ ResubmitBoxes

LinkSpec == LinkInit /\ [][LinkNext]_vars

Linked == pc = "linked"

\* C16: in the list the linker returns no two boxes share a non-null
\* field_path; the first box, in input order, that resolves to a field path
\* gets it, and every later box resolving to that path is returned with
\* field_path null.
C16_AtMostOneBoxPerField ==
    Linked =>
        \A field_map \in {BuildFieldMap(canonical_doc)} :
            LET raw == extraction_result.bounding_boxes
                out == result.bounding_boxes
                resolved(i) == ResolveBox(field_map, raw[i])
            IN  /\ Len(out) = Len(raw)
                /\ \A i, j \in 1..Len(out) :
                      i < j /\ out[i].field_path # None
                          => out[i].field_path # out[j].field_path
                /\ \A i \in 1..Len(out) :
                      out[i].field_path =
                          IF \A j \in 1..(i - 1) : resolved(j) # resolved(i)
                          THEN resolved(i) ELSE None

\* two boxes resolve to totals.total_amount: the first has it, the second is unlinked
C16_Witness ==
    /\ Linked
    /\ canonical_doc = TotalsOnlyDoc
    /\ Len(result.bounding_boxes) = 2
    /\ extraction_result.bounding_boxes = <<BoundingBox(T1210), BoundingBox(T1210Spaced)>>
    /\ result.bounding_boxes[1].field_path = Some(FieldPath("totals", 0, "total_amount"))
    /\ result.bounding_boxes[2].field_path = None

\* C17: for totals total_tax 210.00, subtotal 1000.00, total_amount 1210.00
\* and no other numeric field, boxes with the texts '1000.00', '210,00' and
\* '1 210.00' are linked to totals.subtotal, totals.total_tax and
\* totals.total_amount respectively (in whatever order the boxes come).
C17_LinksAcrossNumberFormats ==
    LET raw == extraction_result.bounding_boxes
        out == result.bounding_boxes
        expected(text) == IF text = T1000 THEN FieldPath("totals", 0, "subtotal")
                          ELSE IF text = T210Comma THEN FieldPath("totals", 0, "total_tax")
                          ELSE FieldPath("totals", 0, "total_amount")
    IN  (/\ Linked
         /\ canonical_doc = TotalsOnlyDoc
         /\ \A i \in 1..Len(raw) : raw[i].text \in {T1000, T210Comma, T1210Spaced}
         /\ \A i, j \in 1..Len(raw) : i # j => raw[i].text # raw[j].text)
        => \A i \in 1..Len(out) :
               /\ out[i].text = raw[i].text
               /\ out[i].field_path = Some(expected(raw[i].text))

\* the three boxes in the order of the claim, linked
C17_Witness ==
    /\ Linked
    /\ canonical_doc = TotalsOnlyDoc
    /\ extraction_result.bounding_boxes =
           <<BoundingBox(T1000), BoundingBox(T210Comma), BoundingBox(T1210Spaced)>>
    /\ result.bounding_boxes =
           <<BoundingBoxModel(T1000, Some(FieldPath("totals", 0, "subtotal"))),
             BoundingBoxModel(T210Comma, Some(FieldPath("totals", 0, "total_tax"))),
             BoundingBoxModel(T1210Spaced, Some(FieldPath("totals", 0, "total_amount")))>>


(***************************************************************************)
(* Annotation edits: a processed document is in the store (or not), then   *)
(* update_annotations runs once with a request of boxes.                   *)
(***************************************************************************)
MaxRequestBoxes == 2

\* "31.02.2024": three parts, not a date of the calendar
TBadDate == <<"3", "1", ".", "0", "2", ".", "2", "0", "2", "4">>
EditTexts == {T210Comma, TWord, TDateDots, TBadDate}

EditPaths ==
    {None,
     Some(FieldPath("totals", 0, "total_amount")),
     Some(FieldPath("totals", 0, "amount_due")),
     Some(FieldPath("totals", 0, "grand_total")),
     Some(FieldPath("document", 0, "issue_date")),
     Some(FieldPath("document", 0, "number")),
     Some(FieldPath("line_items", 0, "line_total")),
     Some(FieldPath("line_items", 5, "line_total"))}

RECURSIVE Requests(_)
Requests(n) ==
    IF n = 0 THEN {<<>>}
    ELSE Requests(n - 1)
         \cup {Append(boxes, BoundingBoxModel(t, p)) :
                  boxes \in {b \in Requests(n - 1) : Len(b) = n - 1},
                  t \in EditTexts, p \in EditPaths}

\* a document process returned as 'uncertain': total_amount misread
MisreadTotalDoc == [TotalsOnlyDoc EXCEPT !.totals.total_amount = D(999)]

\* _document_store[document_id], or NoProcessingResult when the id is not stored
StoredResults ==
    {NoProcessingResult} \cup {FinalResult(doc, NoResult) : doc \in {FixtureDoc, TotalsOnlyDoc}}
    \cup {FinalResult(doc, MathValidator_validate(doc)) : doc \in {MisreadTotalDoc}}

EditInit ==
    /\ pc = "stored"
    /\ max_retries = 1
    /\ extraction_result = ExtractionResult(NoText, "none")
    /\ extracted_data = EmptyObject
    /\ canonical_doc = EmptyDocument
    /\ validation_result = NoResult
    /\ retry_count = 0
    /\ result \in StoredResults
    /\ llm_calls = 0
    /\ revalidate_calls = 0
    /\ responses = <<>>
    /\ validations = <<>>
    /\ prev_doc = EmptyDocument
    /\ ValIdle

\* update_annotations: 404 for an id that is not stored; otherwise the edits
\* are made in the stored document one box after another, and the boxes are
\* replaced unless an exception ended the loop
update_annotations(request) ==
    /\ pc = "stored"
    /\ \E done \in {IF result.status = "none" THEN Outcome(result.data, FALSE)
                     ELSE SyncBoxes(result.data, request)} :
          /\ pc' = IF result.status = "none" THEN "not_found"
                   ELSE IF done.raised THEN "annotate_raised" ELSE "annotated"
          /\ result' = IF result.status = "none" THEN result
                       ELSE IF done.raised THEN [result EXCEPT !.data = done.doc]
                       ELSE [result EXCEPT !.data = done.doc, !.bounding_boxes = request]
          /\ prev_doc' = result.data
    /\ UNCHANGED <<max_retries, extraction_result, extracted_data, canonical_doc,
                   validation_result, retry_count, llm_calls, revalidate_calls,
                   responses, validations>>
    /\ UNCHANGED valVars

\* confirm_document: 404 for an id that is not stored; otherwise the stored
\* result is marked valid (the handler also resets validation_status,
\* validation_issues and ai_suggestions of result.data.metadata)
confirm_document ==
    /\ pc = "stored"
    /\ pc' = IF result.status = "none" THEN "not_found" ELSE "confirmed"
    /\ result' = IF result.status = "none" THEN result
                 ELSE [result EXCEPT !.status = "valid",
                                     !.review_required = FALSE,
                                     !.suggestions = <<>>,
                                     !.message = Words(<<"document", "confirmed", "by",
                                                         "user">>)]
    /\ prev_doc' = result.data
    /\ UNCHANGED <<max_retries, extraction_result, extracted_data, canonical_doc,
                   validation_result, retry_count, llm_calls, revalidate_calls,
                   responses, validations>>
    /\ UNCHANGED valVars

\* the JSON bodies of update_document: one that CanonicalDocument(**document)
\* rejects, and documents
UpdateBodies ==
    {[accepted |-> FALSE, doc |-> EmptyDocument]}
    \cup {[accepted |-> TRUE, doc |-> d] : d \in {TotalsOnlyDoc, SampleDoc}}

\* update_document: 404 for an id that is not stored, 400 for a body the
\* model rejects; otherwise result.data = new_doc
update_document(document) ==
    /\ pc = "stored"
    /\ pc' = IF result.status = "none" THEN "not_found"
             ELSE IF ~document.accepted THEN "bad_request" ELSE "updated"
    /\ result' = IF result.status # "none" /\ document.accepted
                 THEN [result EXCEPT !.data = document.doc] ELSE result
    /\ prev_doc' = result.data
    /\ UNCHANGED <<max_retries, extraction_result, extracted_data, canonical_doc,
                   validation_result, retry_count, llm_calls, revalidate_calls,
                   responses, validations>>
    /\ UNCHANGED valVars

EditNext ==
    \/ \E request \in Requests(MaxRequestBoxes) : update_annotations(request)
    \/ confirm_document
    \/ \E document \in UpdateBodies : update_document(document)

EditSpec == EditInit /\ [][EditNext]_vars

\* the field path names a field the document has
Addressable(doc, path) ==
    /\ path.kind \in DOMAIN doc
    /\ path.kind = "line_items" => path.index < Len(doc.line_items)
    /\ DeclaredType(path.kind, path.field) # "absent"

\* the text can be read as a value of the type the field's current value has
Parses(runtime, text) ==
    CASE runtime = "Decimal" -> ConvertDecimal(text) # None
      [] runtime = "date" -> ConvertDate(text) # None /\ ~IsStr(ConvertDate(text)[1])
      [] runtime = "int" -> IntOf(text) # None
      [] OTHER -> TRUE

\* C18: for every (field_path, new_text) edit update_annotations applies, no
\* exception reaches the caller, and whenever new_text cannot be parsed into
\* the type of the field's current value the field keeps its previous value.
C18_ReverseSyncNeverFails ==
    /\ pc # "annotate_raised"
    /\ pc = "annotated" =>
          \A k \in 1..Len(result.bounding_boxes) :
              \A before \in {SyncBoxes(prev_doc, SubSeq(result.bounding_boxes, 1, k - 1)).doc} :
              \A after \in {SyncBoxes(before, <<result.bounding_boxes[k]>>).doc} :
                  LET box == result.bounding_boxes[k] IN
                  (/\ box.field_path # None
                   /\ Addressable(before, box.field_path[1])
                   /\ ~Parses(RuntimeType(before, box.field_path[1]), box.text))
                  => GetField(after, box.field_path[1]) = GetField(before, box.field_path[1])


(***************************************************************************)
(* Style detection and the amount-due rule, on ValSpec                     *)
(***************************************************************************)
\* condition (a) or (b) of the style rule, read for any number of line items
LumpSumConditions(doc) ==
    \/ /\ \A i \in 1..Len(doc.line_items) : doc.line_items[i].tax_amount = Zero
       /\ RLt(Zero, doc.totals.total_tax)
    \/ WithinToleranceBand(RSum(LineTotals(doc)), doc.totals.subtotal)

\* C19 as stated: validate takes a document as lump-sum style iff (a) every
\* line item's tax_amount is zero or absent while total_tax > 0, or (b) the
\* sum of the line totals is close to subtotal; also with no line items.
C19_StyleDetection ==
    Validated => (_is_us_style_invoice(vdoc) <=> LumpSumConditions(vdoc))

\* C19 amended: a document with no line items is always taken as
\* inclusive-per-line style; one with line items is lump-sum style iff (a) or
\* (b) holds.
C19_StyleDetectionWithItems ==
    Validated =>
        (_is_us_style_invoice(vdoc) <=> (vdoc.line_items # <<>> /\ LumpSumConditions(vdoc)))

\* a validated document without line items whose total_tax is positive: it is
\* checked as inclusive-per-line, so a total tax that disagrees with the tax
\* breakdown is no error
C19_Witness ==
    /\ Validated
    /\ vdoc.line_items = <<>>
    /\ RLt(Zero, vdoc.totals.total_tax)
    /\ ~_is_us_style_invoice(vdoc)
    /\ _validate_us_style_tax(vdoc).errors # <<>>
    /\ ~HasErrorMentioning(vres, <<"breakdown">>)

HasAmountDueError(res) == HasErrorMentioning(res, <<"amount", "due">>)
HasGrandTotalError(res) == HasErrorMentioning(res, <<"grand", "total", "mismatch">>)

\* total_amount - prepaid_amount
TotalLessPrepaid(doc) ==
    RSub(doc.totals.total_amount, RSum(doc.totals.prepaid_amount))

HasWarningMentioning(res, phrase) ==
    \E k \in 1..Len(res.warnings) : MsgHas(res.warnings[k], phrase)

\* the message comes from the grand-total check or from the amount-due check
FromGrandTotalOrDue(msg) ==
    \/ MsgHas(msg, <<"grand", "total", "mismatch">>)
    \/ MsgHas(msg, <<"amount", "due">>)

\* line_total is outside the tolerance of quantity x unit_price minus discount
NetMismatch(item) == ~WithinToleranceBand(item.line_total, ExpectedGross(item))

\* ... and, with a tax rate, also of that amount plus tax computed at the rate
NetAndTaxedMismatch(item) ==
    /\ NetMismatch(item)
    /\ item.tax_rate # None =>
           ~WithinToleranceBand(item.line_total,
                                RMul(ExpectedGross(item),
                                     RAdd(D(1), RDiv(item.tax_rate[1], D(100)))))

\* taxable_amount x rate / 100 is outside the tolerance of tax_amount
EntryMismatch(tax) ==
    ~WithinToleranceBand(tax.tax_amount, RDiv(RMul(tax.taxable_amount, tax.rate), D(100)))

CheckedField(error) ==
    IF MsgHas(error, <<"grand", "total", "mismatch">>)
    THEN FieldPath("totals", 0, "total_amount")
    ELSE IF error[1] = W("amount") /\ error[2] = W("due")
    THEN FieldPath("totals", 0, "amount_due")
    ELSE IF MsgHas(error, <<"sum", "of", "tax", "breakdown">>)
    THEN FieldPath("totals", 0, "total_tax")
    ELSE IF MsgHas(error, <<"tax", "breakdown", "error">>)
    THEN FieldPath("totals", 0, "tax_breakdown")
    ELSE FieldPath("line_items", error[2].v.n - 1, "line_total")

\* C22: every error validate emits is mapped by _extract_field_from_error to
\* the field its check is about: grand-total mismatch to totals.total_amount,
\* amount-due to totals.amount_due, total tax against the breakdown to
\* totals.total_tax, a breakdown entry to totals.tax_breakdown, and
\* 'Line N: ...' to line_items[N-1].line_total.
C22_SuggestionTargets ==
    Validated =>
        \A k \in 1..Len(vres.errors) :
            _extract_field_from_error(vres.errors[k]) = CheckedField(vres.errors[k])

(***************************************************************************)
(* Line numbers of the candidates built from LLM output (under Spec)       *)
(***************************************************************************)
\* C23: in every candidate built from LLM output the k-th line item has
\* line_number k (so line numbers are unique), and the suggestion path
\* line_items[N-1] of a per-line error 'Line N: ...' is a valid index that
\* denotes the line item whose total caused the error.
C23_LineNumbersArePositions ==
    validations # <<>> =>
        LET items == canonical_doc.line_items IN
        /\ \A k \in 1..Len(items) : items[k].line_number = k
        /\ \A e \in 1..Len(validation_result.errors) :
               LET path == _extract_field_from_error(validation_result.errors[e]) IN
               path.kind = "line_items" =>
                   /\ path.index + 1 \in 1..Len(items)
                   /\ ~_is_close(items[path.index + 1].line_total,
                                 ExpectedGross(items[path.index + 1]))

(***************************************************************************)
(* The printed total (checked under RecSpec)                               *)
(***************************************************************************)
\* the value a literal denotes when ',' and '.' both separate the fraction
PrintedValue(m) ==
    IF m.sep = "" THEN D(m.whole)
    ELSE Norm(m.whole * Pow10(m.fraclen) + m.frac, Pow10(m.fraclen))

\* the values of the literals on lines containing "total" and on their successors
PrintedCandidates(lines) ==
    {PrintedValue(lines[j].literals[k]) :
        <<j, k>> \in {p \in (1..Len(lines)) \X (1..2) :
                        /\ p[2] <= Len(lines[p[1]].literals)
                        /\ \/ lines[p[1]].has_total
                           \/ p[1] > 1 /\ lines[p[1] - 1].has_total}}

MaxOf(S) == CHOOSE x \in S : \A y \in S : RLe(y, x)

\* C24: reconcile takes as printed total the maximum value of the numeric
\* literals on lines containing 'total' and on the line after each, a literal
\* with ',' having the value of the one with '.'; when total_amount is not
\* within 0.02 of it, total_amount becomes the printed total; with no
\* candidate the document is unchanged.
C24_PrintedTotalSelection ==
    Reconciled =>
        LET candidates == PrintedCandidates(extraction_result.text.lines) IN
        IF candidates = {} THEN vdoc = prev_doc
        ELSE IF RLe(RAbs(RSub(prev_doc.totals.total_amount, MaxOf(candidates))), Norm(2, 100))
             THEN vdoc = prev_doc
             ELSE vdoc.totals.total_amount = MaxOf(candidates)

\* the line items but for line_total and quantity of the last one
OtherLineFields(doc) ==
    [k \in 1..Len(doc.line_items) |->
        IF k = Len(doc.line_items)
        THEN [doc.line_items[k] EXCEPT !.line_total = Zero, !.quantity = Zero]
        ELSE doc.line_items[k]]

\* the values reconcile collects from the text, and the one it picks
CollectedValues(text) ==
    {TotalCandidates(text.lines)[k] : k \in 1..Len(TotalCandidates(text.lines))}

\* C25: when reconcile has picked a printed total it leaves the document
\* unchanged if total_amount is within 0.02 of it; otherwise afterwards
\* total_amount = amount_due = printed total, subtotal = printed total -
\* total_tax, total_tax is unchanged and, with line items, the line totals sum
\* to within 0.02 of the printed total, only line_total and quantity of the
\* last item having changed (quantity only when its unit_price is not zero).
C25_ReconcilePostState ==
    (Reconciled /\ CollectedValues(extraction_result.text) # {}) =>
        LET printed_total == MaxOf(CollectedValues(extraction_result.text))
            n == Len(prev_doc.line_items)
        IN
        IF RLe(RAbs(RSub(prev_doc.totals.total_amount, printed_total)), Norm(2, 100))
        THEN vdoc = prev_doc
        ELSE /\ vdoc.totals.total_amount = printed_total
             /\ vdoc.totals.amount_due = Some(printed_total)
             /\ vdoc.totals.total_tax = prev_doc.totals.total_tax
             /\ vdoc.totals.subtotal = RSub(printed_total, prev_doc.totals.total_tax)
             /\ [vdoc EXCEPT !.totals = prev_doc.totals, !.line_items = <<>>]
                    = [prev_doc EXCEPT !.line_items = <<>>]
             /\ [vdoc.totals EXCEPT !.total_amount = Zero, !.amount_due = None,
                                    !.subtotal = Zero]
                    = [prev_doc.totals EXCEPT !.total_amount = Zero, !.amount_due = None,
                                              !.subtotal = Zero]
             /\ OtherLineFields(vdoc) = OtherLineFields(prev_doc)
             /\ n > 0 =>
                  /\ RLe(RAbs(RSub(RSum(LineTotals(vdoc)), printed_total)), Norm(2, 100))
                  /\ prev_doc.line_items[n].unit_price = Zero
                        => vdoc.line_items[n].quantity = prev_doc.line_items[n].quantity

\* a two-line document whose total was far from the printed one: the totals
\* were rewritten and the last line item took the difference
C25_Witness ==
    /\ Reconciled
    /\ CollectedValues(extraction_result.text) # {}
    /\ Len(vdoc.line_items) = 2
    /\ LastItemAdjusted
    /\ vdoc.line_items[1] = prev_doc.line_items[1]
    /\ vdoc.totals.total_amount # prev_doc.totals.total_amount
    /\ vdoc.totals.subtotal # prev_doc.totals.subtotal

(***************************************************************************)
(* Key collisions and date keys of the field linker (under LinkSpec)       *)
(***************************************************************************)
\* the amount a sample box text prints
PrintedAmount(text) ==
    IF text = T1000 THEN Some(D(1000))
    ELSE IF text = T210Comma THEN Some(D(210))
    ELSE IF text \in {T1210Spaced, T1210, TDollar} THEN Some(D(1210))
    ELSE None

\* the totals fields in registration order, each with its value
TotalsInOrder(doc) ==
    <<<<"total_tax", Some(doc.totals.total_tax)>>, <<"subtotal", Some(doc.totals.subtotal)>>,
      <<"total_amount", Some(doc.totals.total_amount)>>,
      <<"amount_due", doc.totals.amount_due>>>>

\* C26: when several numeric fields hold the amount a box prints, the first
\* box printing it is linked to the field registered first (totals.total_tax,
\* totals.subtotal, totals.total_amount, totals.amount_due, then the line
\* items): with total_amount = amount_due, or a line total equal to
\* total_amount, the box goes to totals.total_amount.
C26_EarlierFieldWins ==
    Linked =>
        LET raw == extraction_result.bounding_boxes
            out == result.bounding_boxes
            fields == TotalsInOrder(canonical_doc)
        IN  \A i \in 1..Len(raw) :
                LET amount == PrintedAmount(raw[i].text) IN
                (/\ amount # None
                 /\ \A j \in 1..(i - 1) : PrintedAmount(raw[j].text) # amount
                 /\ \E k \in 1..4 : fields[k][2] = amount)
                => LET first == CHOOSE k \in 1..4 :
                                   /\ fields[k][2] = amount
                                   /\ \A m \in 1..(k - 1) : fields[m][2] # amount
                   IN  out[i].field_path = Some(FieldPath("totals", 0, fields[first][1]))

\* C27: the keys registered for document.issue_date cover the year-first and
\* the year-last grouping: the first box whose text is the issue date written
\* YYYY-MM-DD, and the first one whose text is it written DD.MM.YYYY, are
\* both linked to document.issue_date.
C27_DateVariantsBothOrders ==
    (Linked /\ canonical_doc = FixtureDoc) =>
        LET raw == extraction_result.bounding_boxes
            out == result.bounding_boxes
        IN  \A i \in 1..Len(raw) :
                (/\ raw[i].text \in {TDateIso, TDateDots}
                 /\ \A j \in 1..(i - 1) : raw[j].text \notin {TDateIso, TDateDots})
                => out[i].field_path = Some(FieldPath("document", 0, "issue_date"))

(***************************************************************************)
(* The stored document after process has returned (under EditSpec)         *)
(***************************************************************************)
\* C28: the document of a stored result that process returned as final (or
\* that confirm marked valid) is immutable: no step of update_annotations,
\* update_document or confirm_document changes any field of result.data.
C28_FinalDocumentImmutable ==
    [][result.status \in {"valid", "uncertain"} => result'.data = result.data]_vars

(***************************************************************************)
(* Linking and then submitting the linked boxes (under LinkSpec)           *)
(***************************************************************************)
\* C29: submitting to update_annotations exactly the boxes the linker
\* produced for a document leaves every field of the document with the value
\* it had, also for a box linked to a multi-word text field through one of
\* its words.
C29_LinkSyncRoundTrip ==
    /\ pc # "annotate_raised"
    /\ pc = "resubmitted" => result.data = prev_doc

(***************************************************************************)
(* The printed total and the candidates of process (under Spec)            *)
(***************************************************************************)
WithinCents(a, b) == RLe(RAbs(RSub(a, b)), Norm(2, 100))

\* C30: whenever the extracted text yields a total candidate, every candidate
\* process validates (the initial one and the one after each retry, the LLM
\* call having succeeded or failed), and so the document of the final valid
\* or uncertain result, has total_amount within 0.02 of the printed total.
C30_PrintedTotalPinsCandidates ==
    CollectedValues(extraction_result.text) # {} =>
        LET printed_total == MaxOf(CollectedValues(extraction_result.text)) IN
        /\ validations # <<>> => WithinCents(canonical_doc.totals.total_amount, printed_total)
        /\ (Returned /\ result.status \in {"valid", "uncertain"})
              => WithinCents(result.data.totals.total_amount, printed_total)

\* the LLM returned a total of 13.10 with a delivery charge, which does not
\* validate against the printed 12.10, and failed in a retry; the result
\* still carries the printed 12.10
C30_Witness ==
    /\ Returned
    /\ result.status = "uncertain"
    /\ extraction_result.text = TextTotal
    /\ extracted_data = JShipping
    /\ revalidate_calls >= 1
    /\ \E k \in 2..Len(responses) : responses[k] \in FailedResponseKinds
    /\ result.data.totals.total_amount = Norm(1210, 100)

====
